---- MODULE Spec2Model ----
(***************************************************************************)
(* Verification model of pycz2 (dpeet/cz2): the HVAC service               *)
(* (backend/src/pycz2/hvac_service.py), the state cache                    *)
(* (backend/src/pycz2/cache.py), the adapters of backend/src/pycz2/api.py  *)
(* that reach the bus, and the bus client's session and row operations     *)
(* (src/pycz2/core/client.py).                                             *)
(*                                                                         *)
(* The runtime is one asyncio event loop: a coroutine runs without         *)
(* interruption from one suspension point to the next.  Every action below *)
(* is one such run.  The service mode modelled is the one the              *)
(* specification covers: WORKER_ENABLED false, ENABLE_CACHE true.          *)
(***************************************************************************)
EXTENDS Integers, Sequences, FiniteSets, TLC

(***************************************************************************)
(* Bounds of the model.                                                    *)
(***************************************************************************)
\* Number of service calls started.
MaxOps == 2
\* Number of direct cache writes made by the cache's own callers.
MaxWrites == 3
\* Last value of the wall clock (seconds); the clock starts at 1.
MaxTime == 2
\* settings.CACHE_STALE_SECONDS, scaled down to the model's clock.
StaleAfterSec == 0
\* settings.COMMAND_TIMEOUT_SECONDS, scaled down to the model's clock.
CommandTimeout == 1

\* asyncio.Queue(maxsize=10) of StateCache.subscribe
QueueMaxSize == 10

\* PROTOCOL_SIZE: bytes of a frame around its data.
PROTOCOL_SIZE == 10
\* MIN_MESSAGE_SIZE and MAX_MESSAGE_SIZE
MIN_MESSAGE_SIZE == PROTOCOL_SIZE + 1
MAX_MESSAGE_SIZE == PROTOCOL_SIZE + 255
\* Longest data of the frames built, and the values of their bytes.
MaxData == 2
DataBytes == {0, 1, 255}
\* Destinations and sources of the frames built.
Addresses == {0, 1, 9, 99, 255}

\* ComfortZoneIIClient.zone_count (settings.CZ_ZONES, 1..8), scaled down.
ZoneCount == 2

\* Messages written to the transport in a behaviour.
MaxSent == 3

\* Commands submitted to the worker, and polls of the polling task, in a
\* behaviour.
MaxCommands == 2
MaxTaskPolls == 1
CommandIds == 1 .. MaxCommands

\* HVACCommand.max_retries
max_retries == 3

\* The breaker's timeout in ticks of the clock, the last tick, and the
\* failures counted in a behaviour.
BreakerTimeout == 1
MaxBreakerTime == 4
MaxFailures == 7

\* CircuitBreaker(failure_threshold=5, ...), half_open_max_calls
failure_threshold == 5
half_open_max_calls == 3

\* MAX_REPLY_ATTEMPTS: frames send_with_reply scans in one attempt.
MAX_REPLY_ATTEMPTS == 5
\* stop_after_attempt(5) of send_with_reply's retry policy.
StopAfterAttempt == 5
\* settings.CZ_ID, the device id of this client.
DeviceId == 99

\* SSEManager.max_subscribers, scaled down.
MaxTotal == 2
\* SSEManager.max_subscribers_per_ip, scaled down.
MaxPerIp == 1
\* asyncio.Queue(maxsize=50) of SubscriberInfo, scaled down.
SseQueueMax == 2
\* Number of event ids handed out.
MaxEvents == 3

\* Tasks that call the service or the bus adapters.
Procs == {"p1", "p2"}
\* Queues handed out by StateCache.subscribe (one per SSE stream).
Queues == {"q1"}
\* Holder of a lock that nobody holds.
Free == "free"
\* A caller of the cache other than the service's tasks.
Env == "env"

VARIABLES
    status,        \* StateCache._status
    meta,          \* StateCache._meta
    subscribers,   \* StateCache._subscribers
    queue,         \* contents of each subscriber queue
    cacheLock,     \* holder of StateCache._lock
    envWrite,      \* the direct cache write in progress, with its error argument
    op_lock,       \* holder of HVACService._op_lock (core.client.get_lock)
    writer,        \* ComfortZoneIIClient.writer: the open transport's owner
    pc,            \* position of each task
    op,            \* the call each task is executing
    ret,           \* the most recent return of a call: who, what, how
    now,           \* time.time()
    nops,          \* operations started so far
    \* history variables (observations, never read by the program)
    writes,        \* cache writes applied so far
    lastWrite,     \* outcome of the last completed cache write
    lastSender,    \* task that sent the last frame of the open bus session
    interfered,    \* another writer wrote the cache during the task's call
    anchor,        \* the forced GetStatus that returned last, if no one wrote since
    lastGot,       \* tag of the last message each subscriber dequeued
    subAt,         \* value of writes when each queue subscribed
    \* the service's background refresh and its stop
    stop_event,    \* HVACService._stop_event
    refresh_task,  \* HVACService._refresh_task: the state of the loop task
    stopping,      \* HVACService.stop is in progress
    \* the event manager (backend/src/pycz2/sse.py)
    sse_subscribers,    \* SSEManager.subscribers, with each SubscriberInfo
    subscribers_by_ip,  \* SSEManager.subscribers_by_ip: the set of each address
    by_ip_keys,         \* the addresses that are keys of subscribers_by_ip
    event_id_counter,   \* SSEManager._event_id_counter
    sse_ret,            \* the last call of the manager and its outcome
    stream,             \* the event_generator of the observed stream
    \* the bus client (src/pycz2/core/client.py, frame.py)
    \* the API and the worker (backend/src/pycz2/api.py, src/pycz2/worker.py)
    zt,            \* the POST /zones/{zone_id}/temperature request
    pending,       \* frames in the accumulator, each with the writes made before it came
    sends,          \* messages written to the transport so far
    controller,    \* rows 1.12 and 1.16 as the controller stores them, and as they were
    zs,            \* the set_zone_setpoints call
    command_queue, \* HVACWorker.command_queue: the queued (priority, command) items
    tracker,       \* CommandTracker._commands: the status of each command id
    wk,            \* HVACWorker: connection flag, command processor and polling task
    circuit_breaker, \* HVACWorker.circuit_breaker
    cm,            \* _connection_manager: _connected, its position, and time.time()
    gf,            \* the get_frame call in progress and how it ended
    fed,           \* the noise before and the bytes after the frame on the wire
    built,         \* the fields and the bytes of the last build_message
    wire,          \* bytes the peer has sent and the client has not read
    buffer,        \* ComfortZoneIIClient._buffer
    consecutive_failures,  \* get_frame's count of empty reads in a row
    got,           \* how the last get_frame / parse ended, and its frame
    rebuilt,       \* bytes built again from the parsed fields
    swr,           \* the send_with_reply call in progress or just ended
    rows,          \* the rows the controller stores
    fan,           \* the set_fan_mode command in progress or just ended
    decoded,       \* the status get_status_data decoded last
    cached         \* the status cache.update received from the command

vars == <<status, meta, subscribers, queue, cacheLock, envWrite, op_lock,
          writer, pc, op, ret, now, nops, writes, lastWrite, lastSender,
          interfered, anchor, lastGot, subAt, stop_event, refresh_task,
          stopping, sse_subscribers, subscribers_by_ip, by_ip_keys,
          event_id_counter,
          sse_ret, stream, zt, pending, sends, controller, zs, command_queue, tracker, wk, circuit_breaker, cm, gf, fed, built, wire, buffer, consecutive_failures, got,
          rebuilt, swr, rows, fan, decoded, cached>>

(***************************************************************************)
(* State cache (backend/src/pycz2/cache.py)                                *)
(***************************************************************************)
\* Optional[SystemStatus] None.  A status is identified by the number n of
\* the operation whose bus read produced it; raw tells whether it carries
\* the raw blob.
NoStatus == [n |-> 0, raw |-> FALSE]

\* CacheMeta() as constructed by StateCache.__init__ and StateCache.clear.
InitMeta ==
    [connected |-> FALSE, last_update_ts |-> 0, source |-> "init",
     version |-> 0, error |-> ""]

\* A variant whose age test is at the threshold (>=, not >).
IsStaleAtThreshold(m, t) ==
    IF m.last_update_ts = 0 \/ ~m.connected
    THEN TRUE
    ELSE t - m.last_update_ts >= StaleAfterSec

\* CacheMeta.is_stale
is_stale(m, t) ==
    IF m.last_update_ts = 0 \/ ~m.connected
    THEN TRUE
    ELSE t - m.last_update_ts > StaleAfterSec

\* A variant that does not stamp last_update_ts.
UpdateMetaUnstamped(m, st, source, error, t) ==
    [connected |-> st # NoStatus,
     error |-> IF st # NoStatus THEN "" ELSE error,
     last_update_ts |-> m.last_update_ts,
     source |-> source,
     version |-> m.version + 1]

\* StateCache.update, the assignments made before the first await.
UpdateMeta(m, st, source, error, t) ==
    [connected |-> st # NoStatus,
     error |-> IF st # NoStatus THEN "" ELSE error,
     last_update_ts |-> t,
     source |-> source,
     version |-> m.version + 1]

\* A variant that assigns the status whether or not one was given.
UpdateStatusAlways(old, st) == st

\* StateCache.update, the assignment of self._status.
UpdateStatus(old, st) == IF st # NoStatus THEN st ELSE old

\* StateCache.set_connection_status, the assignments before the first await.
ConnectionMeta(m, connected, source, error) ==
    [m EXCEPT !.connected = connected, !.source = source, !.error = error,
              !.version = m.version + 1]

\* StateCache.clear, the assignment of a new CacheMeta.
ClearMeta(m) == InitMeta

\* The dict put on a subscriber queue: status.to_dict() and meta.to_dict().
\* w is the number of the cache write it reports.
Snapshot(st, m, w) == [status |-> st.n, version |-> m.version, w |-> w]

\* queue.put_nowait: QueueFull leaves the queue as it is.
PutNowait(q, msg) == IF Len(q) < QueueMaxSize THEN Append(q, msg) ELSE q

\* Line 282 of cache.py binds the local `status`, and sits after the return
\* of line 280, inside the `if`: it never runs, so the reference of line 284
\* raises UnboundLocalError whenever there is a subscriber.
StatusBound == FALSE

\* A variant that delivers, and puts the message at the head of each queue.
NotifyAtHead(subs, qs, msg) ==
    [raised |-> FALSE,
     queue |-> [q \in Queues |->
                  IF q \in subs /\ Len(qs[q]) < QueueMaxSize
                  THEN <<msg>> \o qs[q] ELSE qs[q]]]

\* StateCache._notify_subscribers: the queues after the call, and whether it
\* raised.
NotifySubscribers(subs, qs, msg) ==
    IF subs = {}
    THEN [raised |-> FALSE, queue |-> qs]
    ELSE IF ~StatusBound
    THEN [raised |-> TRUE, queue |-> qs]
    ELSE [raised |-> FALSE,
          queue |-> [q \in Queues |->
                        IF q \in subs THEN PutNowait(qs[q], msg) ELSE qs[q]]]

\* No direct cache write is in progress.
NoWrite == [call |-> "none", error |-> ""]

\* get_empty_status(): what StateCache.get returns for an empty cache.
EmptyStatus == [n |-> -1, raw |-> FALSE]

\* StateCache.get: the status it returns (the meta is returned as it is).
Get(st) == IF st = NoStatus THEN EmptyStatus ELSE st

(***************************************************************************)
(* Calls and their bus plans                                               *)
(***************************************************************************)
\* A call in progress: its arguments, the index i of its next row operation,
\* its number n, the version v0 and time t0 at which a command was called,
\* the status st it read from the bus, the error err it failed with, and for
\* a GetStatus whether the cache was fresh (not stale) when it was called
\* and whether its last write was then younger than the staleness window.
IdleOp ==
    [kind |-> "none", operation |-> "", force |-> FALSE, raw |-> FALSE,
     i |-> 1, n |-> 0, v0 |-> 0, t0 |-> 0, st |-> NoStatus, err |-> "",
     fresh |-> FALSE, intime |-> FALSE]

\* The forced GetStatus of task p returned version; ok: its refresh succeeded.
NoAnchor == [p |-> "none", version |-> 0, ok |-> FALSE]

\* A return: the call n of task p, its outcome, the meta.version a GetStatus
\* returned, and prev: the anchor a GetStatus without force directly
\* followed.
NoReturn == [p |-> "none", call |-> "none", force |-> FALSE, raw |-> FALSE,
             outcome |-> "none", n |-> 0, version |-> 0, fresh |-> FALSE,
             intime |-> FALSE, prev |-> NoAnchor]

\* The age test of CacheMeta.is_stale alone.
InWindow(m, t) == t - m.last_update_ts <= StaleAfterSec

Operations == {"set_system_mode", "set_fan_mode", "set_zone_setpoints"}

\* The row reads and writes of ComfortZoneIIClient.set_system_mode,
\* set_fan_mode and set_zone_setpoints, in program order.
Plan(operation) ==
    CASE operation = "set_system_mode" -> << <<"read", 12>>, <<"write", 12>> >>
      [] operation = "set_fan_mode" -> << <<"read", 17>>, <<"write", 17>> >>
      [] operation = "set_zone_setpoints" ->
            << <<"read", 12>>, <<"read", 16>>, <<"write", 12>>, <<"write", 16>> >>
      [] OTHER -> << >>

\* The source tag of the cache write that follows a call's status read.
SourceOf(o) ==
    CASE o.kind = "command" -> "command"
      [] o.kind = "get_status" -> IF o.force THEN "force" ELSE "auto"
      [] o.kind = "refresh_loop" -> "auto_refresh"
      [] o.kind = "live" -> "live_query"
      [] OTHER -> "poll"

\* Calls whose exception handler records the failure in the cache:
\* execute_command and _refresh_once.  get_live_status and the MQTT
\* publisher task only report it.
RecordsFailure(o) == o.kind \in {"command", "get_status", "refresh_loop"}

\* A variant that looks at force_refresh only.
ServeUnlessForced(force, raw, st, m, t) == ~force

\* A variant that never answers from the cache.
ServeNever(force, raw, st, m, t) == FALSE

\* get_status: the test that returns the cached snapshot.
ServeFromCache(force, raw, st, m, t) ==
    /\ ~force
    /\ ~is_stale(m, t)
    /\ ~(raw /\ ~Get(st).raw)

\* A variant that enters without the lock being free.
LockIgnored(holder) == TRUE

\* `async with self._op_lock`: the lock can be taken.
LockAvailable(holder) == holder = Free

\* started_at of execute_command: the clock when the call is made.
StartedAt(t) == t

(***************************************************************************)
(* Event manager (backend/src/pycz2/sse.py): data                          *)
(***************************************************************************)
\* Subscriber ids (uuid4 in the program); id 1 is the stream that is
\* observed, the others never read their queue.
SubIds == 1 .. (MaxTotal + 1)

\* Client addresses.
Ips == {"a", "b"}

\* No SubscriberInfo under this id.  A queue outlives its registration: the
\* stream keeps its SubscriberInfo when the manager forgets it.
NoSubscriber == [live |-> FALSE, ip |-> "", queue |-> << >>, error_count |-> 0]

\* No call of the manager yet.
NoCall == [call |-> "none", outcome |-> "none"]

\* No event_generator: pc is its position, last the id of the event it
\* emitted last.
NoStream == [pc |-> "none", last |-> 0]

\* The close signal Stop puts on the queues (None).
CloseSignal == 0

(***************************************************************************)
(* Bus client: data                                                        *)
(***************************************************************************)
\* Nothing built yet.
NoBuilt == [destination |-> -1, source |-> -1, function |-> "none",
            data |-> << >>, bytes |-> << >>]

\* get_frame has not ended.
NoFrame == [kind |-> "none", destination |-> -1, source |-> -1,
            function |-> "none", data |-> << >>]

\* Python's None for a setpoint the body does not give.
None == -1

\* No request to the API.
NoRequest == [pc |-> "idle", zone_id |-> 0, heat |-> None, cool |-> None,
              current |-> [heat |-> 0, cool |-> 0], response |-> 0,
              written |-> FALSE]

\* No rows known of the controller, and no set_zone_setpoints call.
NoController == [known |-> FALSE]
NoSetpoints == [pc |-> "idle", zones |-> {}, heat_setpoint |-> None,
                cool_setpoint |-> None, temporary_hold |-> None,
                hold |-> None, out_mode |-> None, data12 |-> << >>,
                data16 |-> << >>, outcome |-> "none"]

\* A worker just constructed: disconnected, nothing dequeued, no poll.
NoCommand == [id |-> 0, type |-> "none", priority |-> 0, timestamp |-> 0,
              retry_count |-> 0]
InitWorker == [connected |-> FALSE, pc |-> "idle", command |-> NoCommand,
               dead_letter |-> {}, poll_in_progress |-> FALSE,
               recent |-> FALSE, stamps |-> 0, task |-> "sleep",
               task_poll |-> 0, task_polls |-> 0, resolved |-> {}]

\* CircuitBreaker.__init__, and a connection manager that has not connected.
InitBreaker == [state |-> "closed", failure_count |-> 0,
                last_failure_time |-> 0, half_open_calls |-> 0]
InitManager == [connected |-> FALSE, pc |-> "idle", time |-> 0]

\* No get_frame call.
NoGet == [pc |-> "idle", outcome |-> "none", message |-> "none"]

\* Nothing put on the wire.
NoFed == [prefix |-> << >>, tail |-> << >>, sole |-> FALSE]

\* No send_with_reply call.
NoSend == [pc |-> "idle", function |-> "none", data |-> << >>, attempt |-> 0,
           scanned |-> 0, outcome |-> "none", cause |-> "none",
           reply |-> NoFrame, first |-> 0, received |-> 0]

\* The controller's rows are not known.
NoRows == [known |-> FALSE]

\* No set_fan_mode command.
NoFan == [pc |-> "idle", mode |-> "none", current_val |-> -1, data |-> << >>,
          outcome |-> "none"]

\* Nothing decoded.
NoDecoded == [known |-> FALSE]

(***************************************************************************)
(* Initial state: a service and a cache just constructed, empty database.  *)
(***************************************************************************)
Init ==
    /\ status = NoStatus
    /\ meta = InitMeta
    /\ subscribers = {}
    /\ queue = [q \in Queues |-> << >>]
    /\ cacheLock = Free
    /\ envWrite = NoWrite
    /\ op_lock = Free
    /\ writer = Free
    /\ pc = [p \in Procs |-> "idle"]
    /\ op = [p \in Procs |-> IdleOp]
    /\ ret = NoReturn
    /\ now = 1
    /\ nops = 0
    /\ writes = 0
    /\ lastWrite = [raised |-> FALSE, missed |-> {}, stored |-> TRUE]
    /\ lastSender = "none"
    /\ interfered = [p \in Procs |-> FALSE]
    /\ anchor = NoAnchor
    /\ lastGot = [q \in Queues |-> 0]
    /\ subAt = [q \in Queues |-> 0]
    /\ stop_event = FALSE
    /\ refresh_task = "starting"
    /\ stopping = FALSE
    /\ sse_subscribers = [s \in SubIds |-> NoSubscriber]
    /\ subscribers_by_ip = [ip \in Ips |-> {}]
    /\ by_ip_keys = {}
    /\ event_id_counter = 0
    /\ sse_ret = NoCall
    /\ stream = NoStream
    /\ zt = NoRequest
    /\ pending = << >>
    /\ sends = 0
    /\ controller = NoController
    /\ zs = NoSetpoints
    /\ command_queue = {}
    /\ tracker = [id \in CommandIds |-> "none"]
    /\ wk = InitWorker
    /\ circuit_breaker = InitBreaker
    /\ cm = InitManager
    /\ gf = NoGet
    /\ fed = NoFed
    /\ built = NoBuilt
    /\ wire = << >>
    /\ buffer = << >>
    /\ consecutive_failures = 0
    /\ got = NoFrame
    /\ rebuilt = << >>
    /\ swr = NoSend
    /\ rows = NoRows
    /\ fan = NoFan
    /\ decoded = NoDecoded
    /\ cached = NoDecoded

cacheVars == <<status, meta, cacheLock, writes>>
subVars == <<subscribers, queue>>
trackVars == <<lastGot, subAt>>
stopVars == <<stop_event, refresh_task, stopping>>
\* The API request and the worker.
lateVars == <<zt, controller, zs, command_queue, tracker, wk, circuit_breaker, cm>>
\* The frames waiting in the accumulator of the client.
accVars == <<pending, sends>>
clientVars == <<gf, fed, built, wire, buffer, consecutive_failures, got, rebuilt,
                swr, rows, fan, decoded, cached, lateVars, accVars>>
sseVars == <<sse_subscribers, subscribers_by_ip, by_ip_keys,
             event_id_counter, sse_ret, stream>>
busVars == <<op_lock, writer, lastSender>>
procVars == <<pc, op, ret, interfered, anchor>>

\* A call begins: the bookkeeping shared by every entry point.
Begin(p, o) ==
    /\ pc[p] = "idle"
    /\ nops < MaxOps
    /\ nops' = nops + 1
    /\ op' = [op EXCEPT ![p] =
                IF o.kind = "command"
                THEN [o EXCEPT !.n = nops + 1, !.v0 = meta.version,
                               !.t0 = StartedAt(now)]
                ELSE [o EXCEPT !.n = nops + 1]]
    /\ pc' = [pc EXCEPT ![p] = "wait_lock"]
    /\ interfered' = [interfered EXCEPT ![p] = FALSE]

\* What the caller of p's call observes when it ends.
Returned(p, o, outcome) ==
    LET get == o.kind = "get_status" /\ outcome \in {"cached", "ok", "failed"}
        follows == get /\ ~o.force /\ ~o.raw /\ anchor.p = p
    IN  [p |-> p, call |-> o.kind, force |-> o.force, raw |-> o.raw,
         outcome |-> outcome, n |-> o.n,
         version |-> IF follows THEN meta.version ELSE 0,
         fresh |-> follows /\ o.fresh, intime |-> follows /\ o.intime,
         prev |-> IF follows THEN anchor ELSE NoAnchor]

\* The anchor after p's call ends.
Anchored(p, o, outcome) ==
    IF o.kind = "get_status" /\ o.force /\ outcome \in {"ok", "failed"}
    THEN [p |-> p, version |-> meta.version, ok |-> outcome = "ok"]
    ELSE IF anchor.p = p THEN NoAnchor ELSE anchor

\* The call of p returns or raises to its caller.
Return(p, outcome) ==
    /\ pc' = [pc EXCEPT ![p] = "idle"]
    /\ op' = [op EXCEPT ![p] = IdleOp]
    /\ interfered' = [interfered EXCEPT ![p] = FALSE]
    /\ ret' = Returned(p, op[p], outcome)
    /\ anchor' = Anchored(p, op[p], outcome)

(***************************************************************************)
(* HVACService.get_status                                                  *)
(***************************************************************************)
\* The call is answered from the cache: nothing but the caller changes.
GetStatusCached(p, force, raw) ==
    LET o == [IdleOp EXCEPT !.kind = "get_status", !.force = force,
                            !.raw = raw, !.n = nops + 1,
                            !.fresh = ~is_stale(meta, now),
                            !.intime = InWindow(meta, now)]
    IN  /\ pc[p] = "idle"
        /\ nops < MaxOps
        /\ ServeFromCache(force, raw, status, meta, now)
        /\ nops' = nops + 1
        /\ ret' = Returned(p, o, "cached")
        /\ anchor' = Anchored(p, o, "cached")
        /\ UNCHANGED <<cacheVars, subVars, trackVars, stopVars, clientVars, sseVars, busVars, envWrite, pc,
                       op, interfered, now, lastWrite>>

\* The call goes to _refresh_once.
GetStatusRefresh(p, force, raw) ==
    /\ ~ServeFromCache(force, raw, status, meta, now)
    /\ Begin(p, [IdleOp EXCEPT !.kind = "get_status", !.force = force,
                               !.raw = raw,
                               !.fresh = ~is_stale(meta, now),
                               !.intime = InWindow(meta, now)])
    /\ anchor' = IF anchor.p = p /\ (force \/ raw) THEN NoAnchor ELSE anchor
    /\ UNCHANGED <<cacheVars, subVars, trackVars, stopVars, clientVars, sseVars, busVars, envWrite, ret,
                   now, lastWrite>>

(***************************************************************************)
(* Entry of the other bus users                                            *)
(***************************************************************************)
\* HVACService.execute_command
ExecuteCommand(p, operation) ==
    /\ Begin(p, [IdleOp EXCEPT !.kind = "command", !.operation = operation])
    /\ anchor' = IF anchor.p = p THEN NoAnchor ELSE anchor
    /\ UNCHANGED <<cacheVars, subVars, trackVars, stopVars, clientVars, sseVars, busVars, envWrite, ret,
                   now, lastWrite>>

\* One iteration of HVACService._refresh_loop, api.get_live_status, or one
\* poll of api.lifespan's mqtt_publisher_task.
StartPoll(p, kind) ==
    /\ Begin(p, [IdleOp EXCEPT !.kind = kind])
    /\ anchor' = IF anchor.p = p THEN NoAnchor ELSE anchor
    /\ UNCHANGED <<cacheVars, subVars, trackVars, stopVars, clientVars, sseVars, busVars, envWrite, ret,
                   now, lastWrite>>

(***************************************************************************)
(* The bus session: `async with self._op_lock` around                      *)
(* `async with client.connection()`                                        *)
(***************************************************************************)
\* An exception leaves the session.  execute_command and _refresh_once go
\* to their handler; the adapters report the failure to their caller.
Raise(p, err) ==
    IF RecordsFailure(op[p])
    THEN /\ pc' = [pc EXCEPT ![p] = "fail"]
         /\ op' = [op EXCEPT ![p].err = err]
         /\ UNCHANGED <<ret, interfered, anchor>>
    ELSE Return(p, "error")

\* asyncio.Lock.acquire returns.  (The lock wakes its waiters in arrival
\* order; the model lets any waiter win.)
Acquire(p) ==
    /\ pc[p] = "wait_lock"
    /\ LockAvailable(op_lock)
    /\ op_lock' = p
    /\ pc' = [pc EXCEPT ![p] = "connect"]
    /\ UNCHANGED <<cacheVars, subVars, trackVars, stopVars, clientVars, sseVars, writer, lastSender,
                   envWrite, op, ret, interfered, anchor, now, nops,
                   lastWrite>>

\* ComfortZoneIIClient.connect succeeds: reader and writer are set.
Connect(p) ==
    /\ pc[p] = "connect"
    /\ writer' = p
    /\ pc' = [pc EXCEPT ![p] = "bus"]
    /\ UNCHANGED <<cacheVars, subVars, trackVars, stopVars, clientVars, sseVars, op_lock, lastSender,
                   envWrite, op, ret, interfered, anchor, now, nops,
                   lastWrite>>

\* ComfortZoneIIClient.connect raises: connection() has not entered its
\* try block, the writer was never set, the lock is released on the way out.
ConnectFail(p) ==
    /\ pc[p] = "connect"
    /\ op_lock' = Free
    /\ Raise(p, "bus")
    /\ UNCHANGED <<cacheVars, subVars, trackVars, stopVars, clientVars, sseVars, writer, lastSender,
                   envWrite, now, nops, lastWrite>>

\* A variant that holds the lock per row operation, not per command.
RowStepThenUnlock(p) ==
    /\ pc[p] = "bus"
    /\ op[p].i <= Len(Plan(op[p].operation))
    /\ op' = [op EXCEPT ![p].i = @ + 1]
    /\ lastSender' = p
    /\ op_lock' = Free
    /\ UNCHANGED <<cacheVars, subVars, trackVars, stopVars, clientVars, sseVars, writer, envWrite, pc, ret,
                   interfered, anchor, now, nops, lastWrite>>

\* One read_row or write_row of the command's plan gets its reply.
RowStep(p) ==
    /\ pc[p] = "bus"
    /\ op[p].i <= Len(Plan(op[p].operation))
    /\ op' = [op EXCEPT ![p].i = @ + 1]
    /\ lastSender' = p
    /\ UNCHANGED <<cacheVars, subVars, trackVars, stopVars, clientVars, sseVars, op_lock, writer, envWrite,
                   pc, ret, interfered, anchor, now, nops, lastWrite>>

\* A variant that calls cache.update inside the lock block.
ReadStatusHoldsLock(p) ==
    /\ pc[p] = "bus"
    /\ op[p].i > Len(Plan(op[p].operation))
    /\ op' = [op EXCEPT ![p].st = [n |-> op[p].n, raw |-> op[p].raw]]
    /\ lastSender' = "none"
    /\ writer' = Free
    /\ pc' = [pc EXCEPT ![p] = "update"]
    /\ UNCHANGED <<cacheVars, subVars, trackVars, stopVars, clientVars, sseVars, op_lock,
                   envWrite, ret, interfered, anchor, now, nops, lastWrite>>

\* get_status_data reads its nine rows and decodes them; then the two
\* context managers exit: close() the transport, release the lock.
ReadStatus(p) ==
    /\ pc[p] = "bus"
    /\ op[p].i > Len(Plan(op[p].operation))
    /\ op' = [op EXCEPT ![p].st = [n |-> op[p].n, raw |-> op[p].raw]]
    /\ lastSender' = "none"
    /\ writer' = Free
    /\ op_lock' = Free
    /\ pc' = [pc EXCEPT ![p] = "update"]
    /\ UNCHANGED <<cacheVars, subVars, trackVars, stopVars, clientVars, sseVars, envWrite, ret, interfered,
                   anchor, now, nops, lastWrite>>

\* A variant whose connection() has no finally: the transport stays open.
BusFailLeavesOpen(p) ==
    /\ pc[p] = "bus"
    /\ lastSender' = "none"
    /\ op_lock' = Free
    /\ Raise(p, "bus")
    /\ UNCHANGED <<cacheVars, subVars, trackVars, stopVars, clientVars, sseVars, writer,
                   envWrite, now, nops, lastWrite>>

\* A row operation or the status read raises (RetryError, OSError, no
\* reply): connection()'s finally closes the transport, the lock is released.
BusFail(p) ==
    /\ pc[p] = "bus"
    /\ lastSender' = "none"
    /\ writer' = Free
    /\ op_lock' = Free
    /\ Raise(p, "bus")
    /\ UNCHANGED <<cacheVars, subVars, trackVars, stopVars, clientVars, sseVars, envWrite, now, nops,
                   lastWrite>>

\* asyncio.wait_for cancels _execute_with_lock at its deadline, wherever it
\* is suspended: waiting for the lock, connecting, or on the bus.  The
\* cancellation unwinds the context managers the task had entered.
Timeout(p) ==
    /\ op[p].kind = "command"
    /\ pc[p] \in {"wait_lock", "connect", "bus"}
    /\ now - op[p].t0 >= CommandTimeout
    /\ writer' = IF writer = p THEN Free ELSE writer
    /\ op_lock' = IF op_lock = p THEN Free ELSE op_lock
    /\ lastSender' = IF op_lock = p THEN "none" ELSE lastSender
    /\ pc' = [pc EXCEPT ![p] = "fail"]
    /\ op' = [op EXCEPT ![p].err = "timeout"]
    /\ UNCHANGED <<cacheVars, subVars, trackVars, stopVars, clientVars, sseVars, envWrite, ret, interfered,
                   anchor, now, nops, lastWrite>>

(***************************************************************************)
(* Cache writes.  A write takes StateCache._lock, assigns, and suspends in *)
(* _persist_to_database; when it resumes it notifies and releases.         *)
(***************************************************************************)
\* Bookkeeping of a write applied by w.
Applied(w) ==
    /\ writes' = writes + 1
    /\ cacheLock' = w
    /\ interfered' = [q \in Procs |->
                        interfered[q] \/ (q # w /\ op[q].kind = "command")]
    /\ anchor' = IF anchor.p = w THEN anchor ELSE NoAnchor

\* The message _notify_subscribers builds from the cache.
Update == Snapshot(Get(status), meta, writes)

\* A variant of _persist_to_database without its handler.
PersistPropagates(stored) == ~stored

\* _persist_to_database raises to the write that called it: never, its
\* `except Exception` logs whatever the database write raised.
PersistRaises(stored) == FALSE

\* The end of a write: _persist_to_database has stored the snapshot or has
\* failed, then _notify_subscribers, then the lock is released.
Notified ==
    \E stored \in BOOLEAN :
        LET failed == PersistRaises(stored)
            r == NotifySubscribers(subscribers, queue, Update)
            room == {q \in subscribers : Len(queue[q]) < QueueMaxSize}
        IN  /\ queue' = IF failed THEN queue ELSE r.queue
            /\ cacheLock' = Free
            /\ lastWrite' = [raised |-> failed \/ r.raised,
                             missed |-> IF failed THEN room
                                        ELSE {q \in room :
                                                r.queue[q] #
                                                  Append(queue[q], Update)},
                             stored |-> stored]

NotifyRaises == NotifySubscribers(subscribers, queue, Update).raised

\* cache.update(status, source=...) after a successful status read.
UpdateBegin(p) ==
    /\ pc[p] = "update"
    /\ cacheLock = Free
    /\ status' = UpdateStatus(status, op[p].st)
    /\ meta' = UpdateMeta(meta, op[p].st, SourceOf(op[p]), "", now)
    /\ Applied(p)
    /\ pc' = [pc EXCEPT ![p] = "update_notify"]
    /\ UNCHANGED <<subVars, trackVars, stopVars, clientVars, sseVars, busVars, envWrite, op, ret, now, nops,
                   lastWrite>>

\* The update returns or raises; on return the call returns to its caller
\* (_refresh_once with cache.get(), the others with the status).
UpdateEnd(p) ==
    /\ pc[p] = "update_notify"
    /\ Notified
    /\ IF NotifyRaises THEN Raise(p, "unbound") ELSE Return(p, "ok")
    /\ UNCHANGED <<status, meta, writes, subscribers, trackVars, stopVars, clientVars, sseVars, busVars,
                   envWrite, now, nops>>

\* cache.update(None, source="error", error=...) of the exception handlers.
FailBegin(p) ==
    /\ pc[p] = "fail"
    /\ cacheLock = Free
    /\ status' = UpdateStatus(status, NoStatus)
    /\ meta' = UpdateMeta(meta, NoStatus, "error", op[p].err, now)
    /\ Applied(p)
    /\ pc' = [pc EXCEPT ![p] = "fail_notify"]
    /\ UNCHANGED <<subVars, trackVars, stopVars, clientVars, sseVars, busVars, envWrite, op, ret, now, nops,
                   lastWrite>>

\* The handler ends: execute_command raises TimeoutError or re-raises,
\* _refresh_once returns cache.get(); an exception of the update itself
\* propagates.
FailEnd(p) ==
    /\ pc[p] = "fail_notify"
    /\ Notified
    /\ Return(p, IF NotifyRaises THEN "raised"
                 ELSE IF op[p].kind # "command" THEN "failed"
                 ELSE IF op[p].err = "timeout" THEN "timeout"
                 ELSE "error")
    /\ UNCHANGED <<status, meta, writes, subscribers, trackVars, stopVars, clientVars, sseVars, busVars,
                   envWrite, now, nops>>

(***************************************************************************)
(* Cache subscribers (the SSE streams)                                     *)
(***************************************************************************)
\* StateCache.subscribe: a new queue, registered, holding the current state.
Subscribe(q) ==
    /\ q \notin subscribers
    /\ subscribers' = subscribers \cup {q}
    /\ queue' = [queue EXCEPT ![q] = PutNowait(<< >>, Update)]
    /\ UNCHANGED <<cacheVars, busVars, procVars, stopVars, clientVars, envWrite, now,
                   nops, lastWrite>>

\* StateCache.unsubscribe
Unsubscribe(q) ==
    /\ q \in subscribers
    /\ subscribers' = subscribers \ {q}
    /\ queue' = [queue EXCEPT ![q] = << >>]
    /\ UNCHANGED <<cacheVars, busVars, procVars, stopVars, clientVars, envWrite, now,
                   nops, lastWrite>>

\* The stream takes the next message of its cache queue (cache_queue.get()).
QueueGet(q) ==
    /\ q \in subscribers
    /\ queue[q] # << >>
    /\ queue' = [queue EXCEPT ![q] = Tail(@)]
    /\ UNCHANGED <<cacheVars, busVars, procVars, stopVars, clientVars, envWrite, now,
                   nops, lastWrite, subscribers>>

\* A second passes.  A cache write in progress (one database write) ends
\* within the second it began in.
Tick ==
    /\ now < MaxTime
    /\ cacheLock = Free
    /\ now' = now + 1
    /\ UNCHANGED <<cacheVars, subVars, trackVars, stopVars, clientVars, sseVars, busVars, procVars,
                   envWrite, nops, lastWrite>>

(***************************************************************************)
(* The cache called directly (api /cache/clear, the worker's connection    *)
(* reports, any caller of update)                                          *)
(***************************************************************************)
\* cache.update(status, source, error) up to its first await.
EnvUpdate(present, raw, source, error) ==
    LET st == IF present THEN [n |-> writes + 1, raw |-> raw] ELSE NoStatus
    IN  /\ envWrite = NoWrite
        /\ cacheLock = Free
        /\ writes < MaxWrites
        /\ status' = UpdateStatus(status, st)
        /\ meta' = UpdateMeta(meta, st, source, error, now)
        /\ Applied(Env)
        /\ envWrite' = [call |-> IF present THEN "update" ELSE "failure",
                        error |-> error]
        /\ UNCHANGED <<subVars, trackVars, stopVars, clientVars, sseVars, busVars, pc, op, ret, now, nops,
                       lastWrite>>

\* cache.clear() up to its first await.
EnvClear ==
    /\ envWrite = NoWrite
    /\ cacheLock = Free
    /\ writes < MaxWrites
    /\ status' = NoStatus
    /\ meta' = ClearMeta(meta)
    /\ Applied(Env)
    /\ envWrite' = [call |-> "clear", error |-> ""]
    /\ UNCHANGED <<subVars, trackVars, stopVars, clientVars, sseVars, busVars, pc, op, ret, now, nops,
                   lastWrite>>

\* cache.set_connection_status(connected, source, error) up to its first
\* await.
EnvSetConnectionStatus(connected, source, error) ==
    /\ envWrite = NoWrite
    /\ cacheLock = Free
    /\ writes < MaxWrites
    /\ meta' = ConnectionMeta(meta, connected, source, error)
    /\ Applied(Env)
    /\ envWrite' = [call |-> "set_connection_status", error |-> error]
    /\ UNCHANGED <<status, subVars, trackVars, stopVars, clientVars, sseVars, busVars, pc, op, ret, now,
                   nops, lastWrite>>

\* The direct write resumes after persisting: it notifies and releases the
\* lock; it returns, or the exception of _notify_subscribers propagates.
EnvWriteEnd ==
    /\ envWrite # NoWrite
    /\ Notified
    /\ envWrite' = NoWrite
    /\ UNCHANGED <<status, meta, writes, subscribers, trackVars, stopVars, clientVars, sseVars, busVars,
                   procVars, now, nops>>

\* A stream subscribes, and its observations start.
TrackedSubscribe(q) ==
    /\ Subscribe(q)
    /\ subAt' = [subAt EXCEPT ![q] = writes]
    /\ lastGot' = [lastGot EXCEPT ![q] = 0]
    /\ UNCHANGED sseVars

\* A stream unsubscribes.
TrackedUnsubscribe(q) ==
    /\ Unsubscribe(q)
    /\ subAt' = [subAt EXCEPT ![q] = 0]
    /\ lastGot' = [lastGot EXCEPT ![q] = 0]
    /\ UNCHANGED sseVars

\* A stream receives a message, and notes the write it reports.
TrackedQueueGet(q) ==
    /\ QueueGet(q)
    /\ lastGot' = [lastGot EXCEPT ![q] = Head(queue[q]).w]
    /\ UNCHANGED <<subAt, sseVars>>

NextCache ==
    \/ \E raw \in BOOLEAN, source \in {"poll", "command"} :
          EnvUpdate(TRUE, raw, source, "")
    \/ \E error \in {"bus", "timeout"} : EnvUpdate(FALSE, FALSE, "error", error)
    \/ EnvClear
    \/ EnvSetConnectionStatus(TRUE, "connect", "")
    \/ EnvSetConnectionStatus(FALSE, "disconnect", "bus")
    \/ EnvWriteEnd
    \/ \E q \in Queues :
          \/ TrackedSubscribe(q)
          \/ TrackedUnsubscribe(q)
          \/ TrackedQueueGet(q)
    \/ Tick

\* The cache with its direct callers, its subscribers and the clock.
SpecCache == Init /\ [][NextCache]_vars

(***************************************************************************)
(* The service with its callers, the cache's subscribers and the clock.    *)
(***************************************************************************)
Next ==
    \/ \E p \in Procs, force \in BOOLEAN, raw \in BOOLEAN :
          \/ GetStatusCached(p, force, raw)
          \/ GetStatusRefresh(p, force, raw)
    \/ \E p \in Procs, operation \in Operations : ExecuteCommand(p, operation)
    \/ \E p \in Procs, kind \in {"refresh_loop", "live", "mqtt"} :
          StartPoll(p, kind)
    \/ \E p \in Procs :
          \/ Acquire(p)
          \/ Connect(p)
          \/ ConnectFail(p)
          \/ RowStep(p)
          \/ ReadStatus(p)
          \/ BusFail(p)
          \/ Timeout(p)
          \/ UpdateBegin(p)
          \/ UpdateEnd(p)
          \/ FailBegin(p)
          \/ FailEnd(p)
    \/ \E q \in Queues :
          \/ Subscribe(q) /\ UNCHANGED <<trackVars, sseVars>>
          \/ Unsubscribe(q) /\ UNCHANGED <<trackVars, sseVars>>
          \/ QueueGet(q) /\ UNCHANGED <<trackVars, sseVars>>
    \/ Tick

Spec == Init /\ [][Next]_vars

(***************************************************************************)
(* HVACService.stop and the background refresh loop                        *)
(***************************************************************************)
\* The task of _refresh_loop, and the tasks that call execute_command.
LoopTask == "p1"
Callers == Procs \ {LoopTask}

\* A variant whose context managers do not release on cancellation.
ReleasedNever(holder, p) == holder

\* The exit of an `async with` (op_lock, client.connection(), the cache's
\* lock) when CancelledError unwinds task p through it.
Released(holder, p) == IF holder = p THEN Free ELSE holder

\* The loop task exists and has not ended.  refresh_task is "starting" in
\* the initial sleep before the loop's try block, "running" from the first
\* iteration on, "finished" when the loop broke out and returned,
\* "cancelled" when the task ended with CancelledError, "none" when stop has
\* forgotten it.
LoopAlive == refresh_task \in {"starting", "running"}

\* Task.cancel() was called and CancelledError is not yet delivered.
CancelPending == stopping /\ LoopAlive

\* `while not self._stop_event.is_set()`: one more _refresh_once begins.
LoopIterate ==
    /\ LoopAlive
    /\ ~CancelPending
    /\ ~stop_event
    /\ Begin(LoopTask, [IdleOp EXCEPT !.kind = "refresh_loop"])
    /\ anchor' = IF anchor.p = LoopTask THEN NoAnchor ELSE anchor
    /\ refresh_task' = "running"
    /\ UNCHANGED <<cacheVars, subVars, trackVars, clientVars, stop_event,
                   stopping,
                   sseVars, busVars, envWrite, ret, now, lastWrite>>

\* stop() up to `await self._refresh_task`: the event is set and the task is
\* cancelled.  Without a task stop() does nothing.
StopBegin ==
    /\ ~stopping
    /\ LoopAlive
    /\ stop_event' = TRUE
    /\ stopping' = TRUE
    /\ UNCHANGED <<cacheVars, subVars, trackVars, clientVars, refresh_task,
                   sseVars,
                   busVars, procVars, envWrite, now, nops, lastWrite>>

\* CancelledError is raised in the loop task where it is suspended: asleep,
\* waiting for a lock, connecting, on the bus, or persisting a cache write.
\* No handler of _refresh_once catches it (`except Exception`); the context
\* managers it passes release what the task holds; inside the loop's try
\* block `except asyncio.CancelledError: break` ends the task normally, in
\* the initial sleep the task ends cancelled.
LoopCancelled ==
    /\ CancelPending
    /\ op_lock' = Released(op_lock, LoopTask)
    /\ writer' = Released(writer, LoopTask)
    /\ lastSender' = IF op_lock = LoopTask THEN "none" ELSE lastSender
    /\ cacheLock' = Released(cacheLock, LoopTask)
    /\ pc' = [pc EXCEPT ![LoopTask] = "idle"]
    /\ op' = [op EXCEPT ![LoopTask] = IdleOp]
    /\ interfered' = [interfered EXCEPT ![LoopTask] = FALSE]
    /\ ret' = [Returned(LoopTask, op[LoopTask], "cancelled") EXCEPT
                 !.outcome = IF writer = LoopTask THEN "cancelled_in_session"
                             ELSE "cancelled"]
    /\ anchor' = Anchored(LoopTask, op[LoopTask], "cancelled")
    /\ refresh_task' = IF refresh_task = "starting" THEN "cancelled"
                       ELSE "finished"
    /\ UNCHANGED <<status, meta, writes, subVars, trackVars, clientVars,
                   stop_event,
                   stopping, sseVars, envWrite, now, nops, lastWrite>>

\* `await self._refresh_task` resumes.  After a normal end the task is
\* forgotten and the event cleared; CancelledError of a task that ended
\* cancelled passes contextlib.suppress(Exception) and leaves stop().
StopEnd ==
    /\ stopping
    /\ ~LoopAlive
    /\ stopping' = FALSE
    /\ refresh_task' = IF refresh_task = "finished" THEN "none"
                       ELSE refresh_task
    /\ stop_event' = (refresh_task # "finished")
    /\ UNCHANGED <<cacheVars, subVars, trackVars, clientVars, sseVars, busVars, procVars,
                   envWrite, now, nops, lastWrite>>

NextStop ==
    \/ LoopIterate
    \/ /\ ~CancelPending
       /\ \/ Acquire(LoopTask)
          \/ Connect(LoopTask)
          \/ ConnectFail(LoopTask)
          \/ ReadStatus(LoopTask)
          \/ BusFail(LoopTask)
          \/ UpdateBegin(LoopTask)
          \/ UpdateEnd(LoopTask)
          \/ FailBegin(LoopTask)
          \/ FailEnd(LoopTask)
    \/ StopBegin
    \/ LoopCancelled
    \/ StopEnd
    \/ \E p \in Callers, operation \in Operations :
          ExecuteCommand(p, operation)
    \/ \E p \in Callers :
          \/ Acquire(p)
          \/ Connect(p)
          \/ ConnectFail(p)
          \/ RowStep(p)
          \/ ReadStatus(p)
          \/ BusFail(p)
          \/ Timeout(p)
          \/ UpdateBegin(p)
          \/ UpdateEnd(p)
          \/ FailBegin(p)
          \/ FailEnd(p)
    \/ Tick

\* The service with its refresh loop, its stop, and a caller of commands.
SpecStop == Init /\ [][NextStop]_vars

(***************************************************************************)
(* The event manager, SSEManager, and one event_generator                  *)
(***************************************************************************)
\* The subscribers the manager has registered (the keys of its dict).
Live(subs) == {s \in SubIds : subs[s].live}

\* A variant that compares with > where the limits are tested.
AdmitOneMore(subs, by_ip, ip) ==
    IF Cardinality(Live(subs)) > MaxTotal THEN "refused_total"
    ELSE IF Cardinality(by_ip[ip]) > MaxPerIp THEN "refused_ip"
    ELSE "ok"

\* The two limit tests of SSEManager.subscribe, in their order.
Admit(subs, by_ip, ip) ==
    IF Cardinality(Live(subs)) >= MaxTotal THEN "refused_total"
    ELSE IF Cardinality(by_ip[ip]) >= MaxPerIp THEN "refused_ip"
    ELSE "ok"

\* subscribers_by_ip after SSEManager.unsubscribe(s).
DiscardIp(by_ip, subs, s) ==
    IF subs[s].live THEN [by_ip EXCEPT ![subs[s].ip] = @ \ {s}] ELSE by_ip

\* A variant that keeps the entry of an address whose set became empty.
DeleteEmptyNever(keys, by_ip, subs, s) == keys

\* The keys of subscribers_by_ip after SSEManager.unsubscribe(s): the entry
\* of the subscriber's address is deleted when its set is empty.
DeleteEmpty(keys, by_ip, subs, s) ==
    IF subs[s].live /\ DiscardIp(by_ip, subs, s)[subs[s].ip] = {}
    THEN keys \ {subs[s].ip}
    ELSE keys

\* A variant that treats a full queue like a dead subscriber.
BroadcastDropsFull(subs, ev) ==
    [s \in SubIds |->
        IF ~subs[s].live THEN subs[s]
        ELSE IF Len(subs[s].queue) < SseQueueMax
        THEN [subs[s] EXCEPT !.queue = Append(@, ev)]
        ELSE [subs[s] EXCEPT !.live = FALSE, !.error_count = @ + 1]]

\* The loop of broadcast_event over the registered subscribers: put_nowait,
\* and on QueueFull the event is skipped and the error counted.
Broadcast(subs, ev) ==
    [s \in SubIds |->
        IF ~subs[s].live THEN subs[s]
        ELSE IF Len(subs[s].queue) < SseQueueMax
        THEN [subs[s] EXCEPT !.queue = Append(@, ev)]
        ELSE [subs[s] EXCEPT !.error_count = @ + 1]]

\* The cache queue of the observed stream.
StreamQueue == CHOOSE q \in Queues : TRUE

\* The variables the event manager does not touch.
restVars == <<cacheVars, trackVars, stopVars, clientVars, busVars, procVars, envWrite,
              now, nops, lastWrite>>

\* create_sse_response: manager.subscribe for a request from ip, under a
\* fresh id s.  It registers the subscriber, or raises ValueError (429) and
\* registers nothing; the response of id 1 then holds its generator.
ManagerSubscribe(s, ip) ==
    LET r == Admit(sse_subscribers, subscribers_by_ip, ip)
    IN  /\ ~sse_subscribers[s].live
        /\ s = 1 => stream = NoStream
        /\ sse_ret' = [call |-> "subscribe", outcome |-> r]
        /\ IF r = "ok"
           THEN /\ sse_subscribers' =
                     [sse_subscribers EXCEPT
                        ![s] = [live |-> TRUE, ip |-> ip, queue |-> << >>,
                                error_count |-> 0]]
                /\ subscribers_by_ip' =
                     [subscribers_by_ip EXCEPT ![ip] = @ \cup {s}]
                /\ by_ip_keys' = by_ip_keys \cup {ip}
                /\ stream' = IF s = 1 THEN [pc |-> "created", last |-> 0]
                             ELSE stream
           ELSE UNCHANGED <<sse_subscribers, subscribers_by_ip, by_ip_keys,
                            stream>>
        /\ UNCHANGED <<restVars, subVars, event_id_counter>>

\* The generator of another stream ends: manager.unsubscribe(s).
ManagerUnsubscribe(s) ==
    /\ s # 1
    /\ sse_subscribers[s].live
    /\ sse_subscribers' = [sse_subscribers EXCEPT ![s] = NoSubscriber]
    /\ subscribers_by_ip' = DiscardIp(subscribers_by_ip, sse_subscribers, s)
    /\ by_ip_keys' = DeleteEmpty(by_ip_keys, subscribers_by_ip, sse_subscribers, s)
    /\ sse_ret' = [call |-> "unsubscribe", outcome |-> "ok"]
    /\ UNCHANGED <<restVars, subVars, event_id_counter, stream>>

\* broadcast_event without an event id (the heartbeat): the next id is
\* taken, then the event is offered to every registered subscriber.  No
\* lock it takes is contended across an await, so it is one step.
BroadcastEvent ==
    /\ event_id_counter < MaxEvents
    /\ event_id_counter' = event_id_counter + 1
    /\ sse_subscribers' = Broadcast(sse_subscribers, event_id_counter + 1)
    /\ sse_ret' = [call |-> "broadcast", outcome |-> "ok"]
    /\ UNCHANGED <<restVars, subVars, subscribers_by_ip, by_ip_keys, stream>>

\* send_to_subscriber(s, ...): a registered subscriber is offered an event
\* under the next id; on QueueFull the error is counted.  An id that is not
\* registered is ignored.
SendToSubscriber(s) ==
    /\ IF sse_subscribers[s].live
       THEN /\ event_id_counter < MaxEvents
            /\ event_id_counter' = event_id_counter + 1
            /\ sse_subscribers' =
                  [sse_subscribers EXCEPT
                     ![s] = IF Len(@.queue) < SseQueueMax
                            THEN [@ EXCEPT !.queue = Append(@, event_id_counter + 1)]
                            ELSE [@ EXCEPT !.error_count = @ + 1]]
       ELSE UNCHANGED <<event_id_counter, sse_subscribers>>
    /\ sse_ret' = [call |-> "send_to", outcome |-> "ok"]
    /\ UNCHANGED <<restVars, subVars, subscribers_by_ip, by_ip_keys, stream>>

\* SSEManager.stop: the close signal to every queue with room, then both
\* maps are cleared.  The observed stream keeps its queue.
ManagerStop ==
    /\ sse_subscribers' =
          [s \in SubIds |->
              IF ~sse_subscribers[s].live THEN sse_subscribers[s]
              ELSE IF s # 1 THEN NoSubscriber
              ELSE [sse_subscribers[s] EXCEPT
                      !.live = FALSE,
                      !.queue = IF Len(@) < SseQueueMax
                                THEN Append(@, CloseSignal) ELSE @]]
    /\ subscribers_by_ip' = [ip \in Ips |-> {}]
    /\ by_ip_keys' = {}
    /\ sse_ret' = [call |-> "stop", outcome |-> "ok"]
    /\ UNCHANGED <<restVars, subVars, event_id_counter, stream>>

\* event_generator starts: it emits the initial state under the next event
\* id and subscribes to the cache.
StreamStart ==
    /\ stream.pc = "created"
    /\ event_id_counter < MaxEvents
    /\ event_id_counter' = event_id_counter + 1
    /\ stream' = [pc |-> "running", last |-> event_id_counter + 1]
    /\ sse_ret' = [call |-> "next_event_id", outcome |-> "ok"]
    /\ Subscribe(StreamQueue)
    /\ UNCHANGED <<trackVars, sse_subscribers, subscribers_by_ip,
                   by_ip_keys>>

\* A variant without the inner finally: the cache queue stays subscribed.
StreamEndsKeepsCacheQueue ==
    /\ sse_subscribers' = [sse_subscribers EXCEPT ![1] = NoSubscriber]
    /\ subscribers_by_ip' = DiscardIp(subscribers_by_ip, sse_subscribers, 1)
    /\ by_ip_keys' = DeleteEmpty(by_ip_keys, subscribers_by_ip, sse_subscribers, 1)
    /\ stream' = NoStream
    /\ UNCHANGED <<restVars, subVars, event_id_counter, sse_ret>>

\* The generator ends: the finally blocks unsubscribe from the cache and
\* from the manager.
StreamEnds ==
    /\ Unsubscribe(StreamQueue)
    /\ sse_subscribers' = [sse_subscribers EXCEPT ![1] = NoSubscriber]
    /\ subscribers_by_ip' = DiscardIp(subscribers_by_ip, sse_subscribers, 1)
    /\ by_ip_keys' = DeleteEmpty(by_ip_keys, subscribers_by_ip, sse_subscribers, 1)
    /\ stream' = NoStream
    /\ UNCHANGED <<trackVars, event_id_counter, sse_ret>>

\* subscriber.queue.get() completes: the close signal ends the generator,
\* an event of the manager is emitted as it is, under the id it was
\* broadcast with.
StreamTakeEvent ==
    /\ stream.pc = "running"
    /\ sse_subscribers[1].queue # << >>
    /\ IF Head(sse_subscribers[1].queue) = CloseSignal
       THEN StreamEnds
       ELSE /\ sse_subscribers' = [sse_subscribers EXCEPT ![1].queue = Tail(@)]
            /\ stream' = [stream EXCEPT !.last = Head(sse_subscribers[1].queue)]
            /\ UNCHANGED <<restVars, subVars, subscribers_by_ip,
                           by_ip_keys, event_id_counter, sse_ret>>

\* cache_queue.get() completes: the cache's message is emitted under the
\* next event id.
StreamTakeCache ==
    /\ stream.pc = "running"
    /\ event_id_counter < MaxEvents
    /\ QueueGet(StreamQueue)
    /\ event_id_counter' = event_id_counter + 1
    /\ stream' = [stream EXCEPT !.last = event_id_counter + 1]
    /\ sse_ret' = [call |-> "next_event_id", outcome |-> "ok"]
    /\ UNCHANGED <<trackVars, sse_subscribers, subscribers_by_ip,
                   by_ip_keys>>

\* request.is_disconnected(): the loop breaks.
StreamDisconnect ==
    /\ stream.pc = "running"
    /\ StreamEnds

\* The generator is cancelled, or an exception leaves its loop
\* (CancelledError at asyncio.wait, an error of request.is_disconnected):
\* both finally blocks run.
StreamCancelled ==
    /\ stream.pc = "running"
    /\ StreamEnds

\* The generator is closed or cancelled at its first yield, after it took
\* the id of the initial state and before it subscribed to the cache: only
\* the outer finally runs.
StreamClosedAtStart ==
    /\ stream.pc = "created"
    /\ event_id_counter < MaxEvents
    /\ event_id_counter' = event_id_counter + 1
    /\ sse_ret' = [call |-> "next_event_id", outcome |-> "ok"]
    /\ sse_subscribers' = [sse_subscribers EXCEPT ![1] = NoSubscriber]
    /\ subscribers_by_ip' = DiscardIp(subscribers_by_ip, sse_subscribers, 1)
    /\ by_ip_keys' = DeleteEmpty(by_ip_keys, subscribers_by_ip, sse_subscribers, 1)
    /\ stream' = NoStream
    /\ UNCHANGED <<restVars, subVars>>

NextSSE ==
    \/ \E s \in SubIds, ip \in Ips : ManagerSubscribe(s, ip)
    \/ \E s \in SubIds : ManagerUnsubscribe(s)
    \/ BroadcastEvent
    \/ \E s \in SubIds : SendToSubscriber(s)
    \/ ManagerStop
    \/ StreamStart
    \/ StreamTakeEvent
    \/ StreamTakeCache
    \/ StreamDisconnect
    \/ StreamCancelled
    \/ StreamClosedAtStart

\* The event manager with its subscribers, its heartbeat and one stream.
\* The cache is not written here: the stream's cache queue holds the state
\* it received when it subscribed.
SpecSSE == Init /\ [][NextSSE]_vars

(***************************************************************************)
(* The frame codec (core/frame.py), on bytes.                              *)
(***************************************************************************)
\* class Function: the names of the function codes.
Functions == {"reply", "read", "write", "error"}

\* Function[name].value
FunctionCode(f) ==
    CASE f = "reply" -> 6
      [] f = "read" -> 11
      [] f = "write" -> 12
      [] f = "error" -> 21

\* Enum(Byte, ...) parsing: the name of a known code, the integer otherwise.
FunctionOf(b) ==
    IF \E f \in Functions : FunctionCode(f) = b
    THEN CHOOSE f \in Functions : FunctionCode(f) = b
    ELSE b

\* x with bit k inverted.
FlipBit(x, k) == IF (x \div 2^k) % 2 = 1 THEN x - 2^k ELSE x + 2^k

\* CRC-16/ARC of CRC_CONFIG (width 16, polynomial 0x8005, init 0, xor-out 0,
\* input and output reflected): crc after n more bits of byte b, least
\* significant first; the reflected polynomial is 0xA001, bits 15, 13 and 0.
CrcBits[crc \in 0 .. 65535, b \in 0 .. 255, n \in 0 .. 8] ==
    IF n = 0 THEN crc
    ELSE CrcBits[IF (crc + b) % 2 = 1
                 THEN FlipBit(FlipBit(FlipBit(crc \div 2, 15), 13), 0)
                 ELSE crc \div 2,
                 b \div 2, n - 1]

\* Crc16Ccitt(data) continued from crc.
CrcFrom[crc \in 0 .. 65535, bytes \in Seq(0 .. 255)] ==
    IF bytes = << >> THEN crc
    ELSE CrcFrom[CrcBits[crc, Head(bytes), 8], Tail(bytes)]

\* Crc16Ccitt(data)
Crc16Ccitt(bytes) == CrcFrom[0, bytes]

\* A variant that appends the checksum most significant byte first.
ChecksumBigEndian(checksum) == <<checksum \div 256, checksum % 256>>

\* checksum.to_bytes(2, "little")
ChecksumBytes(checksum) == <<checksum % 256, checksum \div 256>>

\* build_message: header, data, checksum.  Only frames that Byte and
\* bytes() accept are built: fields in 0..255, at most 255 data bytes.
build_message(destination, source, function, data) ==
    LET payload == <<destination, 0, source, 0, Len(data), 0, 0,
                     FunctionCode(function)>> \o data
    IN  payload \o ChecksumBytes(Crc16Ccitt(payload))

\* FRAME_PARSER.parse(bytes): FrameStruct.  The constant bytes must be zero
\* (ConstError) and the bytes must reach the end of the checksum
\* (StreamError); bytes after the checksum are not looked at.
FRAME_PARSER(bytes) ==
    IF Len(bytes) < 2 THEN [kind |-> "StreamError"]
    ELSE IF bytes[2] # 0 THEN [kind |-> "ConstError"]
    ELSE IF Len(bytes) < 4 THEN [kind |-> "StreamError"]
    ELSE IF bytes[4] # 0 THEN [kind |-> "ConstError"]
    ELSE IF Len(bytes) < 7 THEN [kind |-> "StreamError"]
    ELSE IF bytes[6] # 0 \/ bytes[7] # 0 THEN [kind |-> "ConstError"]
    ELSE IF Len(bytes) < PROTOCOL_SIZE + bytes[5]
    THEN [kind |-> "StreamError"]
    ELSE [kind |-> "frame",
          destination |-> bytes[1],
          source |-> bytes[3],
          function |-> FunctionOf(bytes[8]),
          data |-> SubSeq(bytes, 9, 8 + bytes[5]),
          checksum |-> bytes[9 + bytes[5]] * 256 + bytes[10 + bytes[5]]]

\* FRAME_TESTER.parse(bytes).valid with the frame it peeked: the length is
\* the fifth byte; length + 10 bytes must be there (Peek gives None
\* otherwise and the test raises), the length positive, the CRC zero.
FRAME_TESTER(bytes) ==
    IF Len(bytes) < 5 THEN [valid |-> FALSE, frame |-> << >>]
    ELSE LET length == bytes[5]
         IN  IF Len(bytes) < length + PROTOCOL_SIZE
             THEN [valid |-> FALSE, frame |-> << >>]
             ELSE LET frame == SubSeq(bytes, 1, length + PROTOCOL_SIZE)
                  IN  [valid |-> length > 0 /\ Crc16Ccitt(frame) = 0,
                       frame |-> frame]

\* Sequences over S of length up to n.
SeqUpTo(S, n) == UNION {[1 .. k -> S] : k \in 0 .. n}

\* The variables the codec steps do not touch.
notCodec == <<cacheVars, subVars, trackVars, stopVars, sseVars, busVars,
              procVars, envWrite, now, nops, lastWrite, wire, buffer,
              consecutive_failures, gf, fed, swr, rows, fan, decoded, cached,
              lateVars, accVars>>

\* build_message(destination, source, function, data) is called, once in
\* a behaviour.
BuildMessage(destination, source, function, data) ==
    /\ built = NoBuilt
    /\ built' = [destination |-> destination, source |-> source,
                 function |-> function, data |-> data,
                 bytes |-> build_message(destination, source, function, data)]
    /\ got' = NoFrame
    /\ rebuilt' = << >>
    /\ UNCHANGED notCodec

\* FRAME_PARSER.parse(built)
ParseBuilt ==
    /\ built # NoBuilt
    /\ got.kind = "none"
    /\ got' = FRAME_PARSER(built.bytes)
    /\ UNCHANGED <<built, rebuilt, notCodec>>

\* build_message(parsed.destination, parsed.source,
\*               Function[parsed.function], list(parsed.data))
Rebuild ==
    /\ got.kind = "frame"
    /\ got.function \in Functions
    /\ rebuilt = << >>
    /\ rebuilt' = build_message(got.destination, got.source, got.function,
                                got.data)
    /\ UNCHANGED <<built, got, notCodec>>

NextCodec ==
    \/ /\ built = NoBuilt
       /\ \E destination, source \in Addresses, function \in Functions,
             data \in SeqUpTo(DataBytes, MaxData) :
               BuildMessage(destination, source, function, data)
    \/ ParseBuilt
    \/ Rebuild

\* Frames built, parsed and built again.
SpecCodec == Init /\ [][NextCodec]_vars

(***************************************************************************)
(* ComfortZoneIIClient.get_frame on a stream of bytes.                     *)
(***************************************************************************)
\* get_frame: max_buffer_size and max_failures
max_buffer_size == 10 * MAX_MESSAGE_SIZE
max_failures == 50

\* bytes[offset:]
From(bytes, offset) == SubSeq(bytes, offset + 1, Len(bytes))

\* The scan accepts offset: the tester finds the slice valid and the
\* parser takes the frame (a ConstError makes the scan go on).
Hit(bytes, offset) ==
    LET test_frame == FRAME_TESTER(From(bytes, offset))
    IN  /\ test_frame.valid
        /\ FRAME_PARSER(test_frame.frame).kind = "frame"

\* for offset in range(len(buffer) - MIN_MESSAGE_SIZE + 1): the first
\* offset from o on that the scan accepts, -1 if there is none.
RECURSIVE Scan(_, _)
Scan(bytes, o) ==
    IF o > Len(bytes) - MIN_MESSAGE_SIZE THEN -1
    ELSE IF Hit(bytes, o) THEN o
    ELSE Scan(bytes, o + 1)

\* A variant that drops the frame's bytes from the front of the accumulator.
AdvanceFrameOnly(bytes, offset, frame_bytes) == From(bytes, Len(frame_bytes))

\* self._buffer[offset + len(frame_bytes):]
Advance(bytes, offset, frame_bytes) == From(bytes, offset + Len(frame_bytes))

\* One round of get_frame's loop on accumulator bytes, up to its return or
\* its next read: too short an accumulator reads; too long a one keeps its
\* last MAX_MESSAGE_SIZE bytes; the first frame found is returned and the
\* accumulator advanced past it.
Round(bytes) ==
    IF Len(bytes) < MIN_MESSAGE_SIZE
    THEN [pc |-> "reading", buffer |-> bytes, frame |-> NoFrame]
    ELSE LET kept == IF Len(bytes) > max_buffer_size
                     THEN From(bytes, Len(bytes) - MAX_MESSAGE_SIZE)
                     ELSE bytes
             offset == Scan(kept, 0)
         IN  IF offset = -1
             THEN [pc |-> "reading", buffer |-> kept, frame |-> NoFrame]
             ELSE LET frame_bytes == FRAME_TESTER(From(kept, offset)).frame
                  IN  [pc |-> "done",
                       buffer |-> Advance(kept, offset, frame_bytes),
                       frame |-> FRAME_PARSER(frame_bytes)]

\* Noise before the frame, frames the peer sends, bytes after the frame.
\* The last frame carries a whole frame in its data.
Noise == {<< >>, <<0, 0, 0>>, <<255>>}
FedFrames ==
    {[destination |-> 99, source |-> 1, function |-> "reply",
      data |-> <<0, 1, 16, 74>>],
     [destination |-> 9, source |-> 99, function |-> "read",
      data |-> <<1, 16>>],
     [destination |-> 1, source |-> 2, function |-> "error", data |-> << >>],
     [destination |-> 99, source |-> 1, function |-> "write",
      data |-> build_message(99, 1, "reply", <<0>>)]}
Tails == {<< >>, <<255>>}

\* Sizes of the chunk a read returns from what is on the wire; 0 is the
\* read that times out with nothing.
ReadSizes(bytes) ==
    {n \in {0, 1, MIN_MESSAGE_SIZE, Len(bytes)} :
        n <= Len(bytes) /\ n <= MAX_MESSAGE_SIZE}

\* The variables get_frame does not touch.
notFrame == <<cacheVars, subVars, trackVars, stopVars, sseVars, busVars,
              procVars, envWrite, now, nops, lastWrite, rebuilt, swr, rows,
              fan, decoded, cached, lateVars, accVars>>

\* The peer sends prefix, the bytes of frame f and tail.  sole records that
\* the start of f is the only offset before the tail at which the scan
\* accepts.
Feed(prefix, f, tail) ==
    /\ built = NoBuilt
    /\ LET bytes == build_message(f.destination, f.source, f.function, f.data)
           sent == prefix \o bytes \o tail
       IN  /\ built' = [destination |-> f.destination, source |-> f.source,
                        function |-> f.function, data |-> f.data,
                        bytes |-> bytes]
           /\ wire' = sent
           /\ fed' = [prefix |-> prefix, tail |-> tail,
                      sole |-> \A o \in 0 .. Len(prefix) + Len(bytes) - 1 :
                                  Hit(sent, o) <=> o = Len(prefix)]
    /\ UNCHANGED <<buffer, consecutive_failures, gf, got, notFrame>>

\* The outcome of a round on the accumulator bytes.
Continue(bytes) ==
    LET r == Round(bytes)
    IN  /\ buffer' = r.buffer
        /\ gf' = IF r.pc = "done"
                 THEN [pc |-> "done", outcome |-> "frame", message |-> "none"]
                 ELSE [pc |-> "reading", outcome |-> "none",
                       message |-> "none"]
        /\ got' = r.frame

\* get_frame is called on the stream.
GetFrame ==
    /\ built # NoBuilt
    /\ gf.pc = "idle"
    /\ consecutive_failures' = 0
    /\ Continue(buffer)
    /\ UNCHANGED <<built, wire, fed, notFrame>>

\* _read_data returns the next n bytes: none counts as a failure and the
\* count beyond max_failures raises; any data resets the count.
GfRead(n) ==
    /\ gf.pc = "reading"
    /\ wire' = From(wire, n)
    /\ IF n = 0
       THEN /\ consecutive_failures' = consecutive_failures + 1
            /\ IF consecutive_failures' > max_failures
               THEN /\ gf' = [pc |-> "done",
                              outcome |-> "ConnectionAbortedError",
                              message |-> "Too many consecutive empty reads"]
                    /\ UNCHANGED <<buffer, got>>
               ELSE Continue(buffer)
       ELSE /\ consecutive_failures' = 0
            /\ Continue(buffer \o SubSeq(wire, 1, n))
    /\ UNCHANGED <<built, fed, notFrame>>

\* _read_data raises ConnectionAbortedError: the peer closed or reset the
\* connection.
GfConnectionLost ==
    /\ gf.pc = "reading"
    /\ gf' = [pc |-> "done", outcome |-> "ConnectionAbortedError",
              message |-> "Connection closed by peer."]
    /\ UNCHANGED <<built, wire, buffer, consecutive_failures, got, fed,
                   notFrame>>

NextFrame ==
    \/ \E prefix \in Noise, f \in FedFrames, tail \in Tails :
          Feed(prefix, f, tail)
    \/ GetFrame
    \/ \E n \in ReadSizes(wire) : GfRead(n)
    \/ GfConnectionLost

\* get_frame reading a stream that carries one built frame.
SpecFrame == Init /\ [][NextFrame]_vars

(***************************************************************************)
(* ComfortZoneIIClient.send_with_reply under its tenacity retry policy.    *)
(* get_frame is taken at the level of frames here: it returns the next     *)
(* valid frame of the bus, or raises ConnectionAbortedError.               *)
(***************************************************************************)
\* Frames the bus may carry: to this device or to another one, of every
\* function (and of a code that is none), echoing row 1.17, echoing another
\* row, or with a single data byte like the acknowledgement of a write.
BusFrames ==
    [kind : {"frame"}, destination : {DeviceId, 1}, source : {1},
     function : {"reply", "read", "write", "error", "unknown"},
     data : {<<0, 1, 17, 4>>, <<0, 1, 18, 4>>, <<0>>}]

\* The requests read_row and write_row make.
Requests == {[function |-> "read", data |-> <<0, 1, 17>>],
             [function |-> "write", data |-> <<0, 1, 17, 4>>]}

\* A variant of the policy that retries whatever was raised.
RetriesAny(exc) == TRUE

\* retry_if_exception_type((ConnectionAbortedError, ConnectionError))
Retries(exc) == exc \in {"ConnectionAbortedError", "ConnectionError"}

\* What the loop of send_with_reply does with frame f for a request of
\* this function and data: "skip" it, "return" it, or raise on "error".
Reply(function, data, f) ==
    IF f.destination # DeviceId THEN "skip"
    ELSE IF f.function = "error" THEN "error"
    ELSE IF f.function = "reply"
    THEN IF function = "read" /\ Len(data) >= 3 /\ Len(f.data) >= 3
         THEN IF SubSeq(f.data, 1, 3) = SubSeq(data, 1, 3)
              THEN "return" ELSE "skip"
         ELSE "return"
    ELSE "skip"

\* The call after an attempt raised exc: tenacity waits and attempts again,
\* gives up with RetryError, or lets exc through.
AfterFailure(s, exc) ==
    IF Retries(exc)
    THEN IF s.attempt < StopAfterAttempt
         THEN [s EXCEPT !.pc = "wait", !.cause = exc]
         ELSE [s EXCEPT !.pc = "done", !.cause = exc, !.outcome = "RetryError"]
    ELSE [s EXCEPT !.pc = "done", !.cause = exc, !.outcome = exc]

\* The variables send_with_reply does not touch.
notSwr == <<cacheVars, subVars, trackVars, stopVars, sseVars, busVars,
            procVars, envWrite, now, nops, lastWrite, built, wire, buffer,
            consecutive_failures, got, rebuilt, gf, fed, rows, fan, decoded,
            cached, lateVars>>

\* send_with_reply is called: the first attempt begins.
SendWithReply(request) ==
    /\ swr.pc \in {"idle", "done"}
    /\ swr' = [NoSend EXCEPT !.pc = "write", !.function = request.function,
                             !.data = request.data, !.attempt = 1]
    /\ UNCHANGED <<notSwr, accVars>>

\* _write_data has written the message; after 20 ms the scan begins.
SwrWrite ==
    /\ swr.pc = "write"
    /\ sends < MaxSent
    /\ sends' = sends + 1
    /\ swr' = [swr EXCEPT !.pc = "scan", !.scanned = 0,
                          !.first = IF @ = 0 THEN sends + 1 ELSE @]
    /\ UNCHANGED <<notSwr, pending>>

\* _write_data raises ConnectionError (not connected, broken pipe).
SwrWriteFails ==
    /\ swr.pc = "write"
    /\ swr' = AfterFailure(swr, "ConnectionError")
    /\ UNCHANGED <<notSwr, accVars>>

\* The scan of send_with_reply is handed frame f, which came from the
\* transport when `received` messages had been written.  After
\* MAX_REPLY_ATTEMPTS frames without a reply the loop ends and TimeoutError
\* is raised.
Scanned(f, received) ==
    LET r == Reply(swr.function, swr.data, f)
        s == [swr EXCEPT !.scanned = @ + 1]
    IN  swr' = IF r = "return"
               THEN [s EXCEPT !.pc = "done", !.outcome = "returned",
                              !.reply = f, !.received = received]
               ELSE IF r = "error" THEN AfterFailure(s, "OSError")
               ELSE IF s.scanned = MAX_REPLY_ATTEMPTS
               THEN AfterFailure(s, "TimeoutError")
               ELSE s

\* get_frame finds no frame in the accumulator, reads, and returns the
\* frame f that arrived.
SwrFrame(f) ==
    /\ swr.pc = "scan"
    /\ pending = << >>
    /\ Scanned(f, sends)
    /\ UNCHANGED <<notSwr, accVars>>

\* The read brings frame f and, behind it, frame g: get_frame returns f and
\* g stays in the accumulator.
SwrFrameAndMore(f, g) ==
    /\ swr.pc = "scan"
    /\ pending = << >>
    /\ Scanned(f, sends)
    /\ pending' = <<[frame |-> g, received |-> sends]>>
    /\ UNCHANGED <<notSwr, sends>>

\* get_frame finds a frame in the accumulator and returns it without
\* reading: nothing empties self._buffer between calls or connections.
SwrBuffered ==
    /\ swr.pc = "scan"
    /\ pending # << >>
    /\ Scanned(Head(pending).frame, Head(pending).received)
    /\ pending' = Tail(pending)
    /\ UNCHANGED <<notSwr, sends>>

\* get_frame raises ConnectionAbortedError (peer closed, too many empty
\* reads).
SwrAbort ==
    /\ swr.pc = "scan"
    /\ pending = << >>
    /\ swr' = AfterFailure(swr, "ConnectionAbortedError")
    /\ UNCHANGED <<notSwr, accVars>>

\* wait_fixed(2) is over: the next attempt begins.
SwrRetry ==
    /\ swr.pc = "wait"
    /\ swr' = [swr EXCEPT !.pc = "write", !.attempt = @ + 1]
    /\ UNCHANGED <<notSwr, accVars>>

NextReply ==
    \/ \E request \in Requests : SendWithReply(request)
    \/ SwrWrite
    \/ SwrWriteFails
    \/ \E f \in BusFrames : SwrFrame(f)
    \/ \E f, g \in BusFrames : SwrFrameAndMore(f, g)
    \/ SwrBuffered
    \/ SwrAbort
    \/ SwrRetry

\* send_with_reply against a bus that delivers any frames and any failure.
SpecReply == Init /\ [][NextReply]_vars

(***************************************************************************)
(* Rows of the controller: set_fan_mode and the decoding of the status.    *)
(* A row is the data of the frame that answers its read: table and row in  *)
(* bytes 0..2, the writable part from byte 3 on.  Of the decoded status    *)
(* the model keeps fan_mode, all_mode and, of each zone, the setpoints and *)
(* the three flags.                                                        *)
(***************************************************************************)
\* (x >> i) & 1
Bit(x, i) == (x \div 2^i) % 2

\* A variant that sets the bit without clearing it first: x | (v << i)
OrBit(x, i, v) == IF v = 1 /\ Bit(x, i) = 0 THEN x + 2^i ELSE x

\* (x & ~(1 << i)) | (v << i)
SetBit(x, i, v) == x - Bit(x, i) * 2^i + v * 2^i

\* safe_get(arr, index): arr[index] if it is there, 0 otherwise.
safe_get(arr, index) == IF index < Len(arr) THEN arr[index + 1] ELSE 0

\* FAN_MODE_MAP.get(fan_mode_raw, FanMode.AUTO)
FAN_MODE_MAP(raw) == IF raw = 1 THEN "On" ELSE "Auto"

\* next(k for k, v in FAN_MODE_MAP.items() if v == fan_mode)
FanVal(fan_mode) == IF fan_mode = "On" THEN 1 ELSE 0

\* The ZoneStatus built for index i (zone i + 1) from rows 1.16 and 1.12.
ZoneOf(r, i) ==
    [zone_id |-> i + 1,
     cool_setpoint |-> safe_get(r.r16, i + 3),
     heat_setpoint |-> safe_get(r.r16, i + 11),
     temporary |-> Bit(safe_get(r.r12, 9), i) = 1,
     hold |-> Bit(safe_get(r.r12, 10), i) = 1,
     out |-> Bit(safe_get(r.r12, 12), i) = 1]

\* A variant that copies the setpoints of the template only.
CopySetpoints(zone, template) ==
    [zone EXCEPT !.cool_setpoint = template.cool_setpoint,
                 !.heat_setpoint = template.heat_setpoint]

\* The body of the all-mode loop: the zone takes the template's values.
CopyTemplate(zone, template) ==
    [zone EXCEPT !.cool_setpoint = template.cool_setpoint,
                 !.heat_setpoint = template.heat_setpoint,
                 !.temporary = template.temporary,
                 !.hold = template.hold,
                 !.out = template.out]

\* _parse_status_from_cache on the rows r.
ParseStatus(r) ==
    LET all_mode_source == safe_get(r.r12, 15)
        zones == [z \in 1 .. ZoneCount |-> ZoneOf(r, z - 1)]
    IN  [known |-> TRUE,
         fan_mode |-> FAN_MODE_MAP(Bit(safe_get(r.r17, 3), 2)),
         all_mode |-> all_mode_source # 0,
         zones |-> IF all_mode_source # 0 /\ 1 <= all_mode_source
                      /\ all_mode_source <= ZoneCount
                   THEN [z \in 1 .. ZoneCount |->
                           IF z = all_mode_source THEN zones[z]
                           ELSE CopyTemplate(zones[z], zones[all_mode_source])]
                   ELSE zones]

\* Contents the controller may hold: the writable part of row 1.17, the
\* bytes 9, 10, 12 and 15 of row 1.12, the setpoints of row 1.16.
Rows17 == {<<0, 1, 17>> \o w : w \in {<< >>, <<0>>, <<4>>, <<251, 9>>, <<255>>}}
Rows12 ==
    {<<0, 1, 12, 0, 0, 0, 0, 0, 0, t, h, 0, o, 0, 0, a>> :
        t \in 0 .. 3, h \in 0 .. 3, o \in 0 .. 3, a \in {0, 1, 2, 3}}
Rows16 ==
    {<<0, 1, 16, c[1], c[2], 0, 0, 0, 0, 0, 0, h[1], h[2]>> :
        c \in {74, 78} \X {74, 78}, h \in {68, 70} \X {68, 70}}

\* The variables the commands on rows do not touch.
notRows == <<cacheVars, subVars, trackVars, stopVars, sseVars, busVars,
             procVars, envWrite, now, nops, lastWrite, gf, fed, built, wire,
             buffer, consecutive_failures, got, rebuilt, swr, lateVars,
             accVars>>

\* The controller holds these rows before the client talks to it.
SetRows(r17, r12, r16) ==
    /\ rows = NoRows
    /\ rows' = [known |-> TRUE, r17 |-> r17, r12 |-> r12, r16 |-> r16]
    /\ UNCHANGED <<fan, decoded, cached, notRows>>

\* get_status_data outside a command: the rows are read and decoded.
GetStatusData ==
    /\ rows.known
    /\ fan.pc \in {"idle", "done"}
    /\ decoded' = ParseStatus(rows)
    /\ UNCHANGED <<rows, fan, cached, notRows>>

\* execute_command("set_fan_mode", fan_mode): set_fan_mode is entered.
SetFanMode(fan_mode) ==
    /\ rows.known
    /\ fan.pc = "idle"
    /\ fan' = [NoFan EXCEPT !.pc = "read", !.mode = fan_mode]
    /\ UNCHANGED <<rows, decoded, cached, notRows>>

\* read_row(1, 1, 17) has returned: bit 2 of the first writable byte is
\* replaced; a row without writable bytes raises IndexError.
FanRead ==
    /\ fan.pc = "read"
    /\ LET data == SubSeq(rows.r17, 4, Len(rows.r17))
       IN  fan' = IF data = << >>
                  THEN [fan EXCEPT !.pc = "done", !.outcome = "IndexError"]
                  ELSE [fan EXCEPT
                          !.pc = "write",
                          !.current_val = data[1],
                          !.data = [data EXCEPT
                                      ![1] = SetBit(data[1], 2,
                                                    FanVal(fan.mode))]]
    /\ UNCHANGED <<rows, decoded, cached, notRows>>

\* write_row(1, 1, 17, data): the controller stores the row and replies 0.
FanWrite ==
    /\ fan.pc = "write"
    /\ rows' = [rows EXCEPT !.r17 = <<0, 1, 17>> \o fan.data]
    /\ fan' = [fan EXCEPT !.pc = "status"]
    /\ UNCHANGED <<decoded, cached, notRows>>

\* write_row: the controller replies with a code that is not 0 and stores
\* nothing; OSError ends the command.
FanWriteRefused ==
    /\ fan.pc = "write"
    /\ fan' = [fan EXCEPT !.pc = "done", !.outcome = "OSError"]
    /\ UNCHANGED <<rows, decoded, cached, notRows>>

\* The status read that follows the command inside the same session.
FanStatus ==
    /\ fan.pc = "status"
    /\ decoded' = ParseStatus(rows)
    /\ fan' = [fan EXCEPT !.pc = "update"]
    /\ UNCHANGED <<rows, cached, notRows>>

\* cache.update(status, source="command"): the command has succeeded.
FanUpdate ==
    /\ fan.pc = "update"
    /\ cached' = decoded
    /\ fan' = [fan EXCEPT !.pc = "done", !.outcome = "ok"]
    /\ UNCHANGED <<rows, decoded, notRows>>

NextRows ==
    \/ /\ rows = NoRows
       /\ \E r17 \in Rows17, r12 \in Rows12, r16 \in Rows16 :
             SetRows(r17, r12, r16)
    \/ GetStatusData
    \/ \E fan_mode \in {"Auto", "On"} : SetFanMode(fan_mode)
    \/ FanRead
    \/ FanWrite
    \/ FanWriteRefused
    \/ FanStatus
    \/ FanUpdate

\* One set_fan_mode command and status reads against a controller that
\* stores what is written to it.
SpecRows == Init /\ [][NextRows]_vars

(***************************************************************************)
(* POST /zones/{zone_id}/temperature (backend/src/pycz2/api.py) with the   *)
(* service executing the command (WORKER_ENABLED false).                   *)
(***************************************************************************)
\* Every variable that is not of the API or the worker.
notLate == <<cacheVars, subVars, trackVars, stopVars, sseVars, busVars,
             procVars, envWrite, now, nops, lastWrite, gf, fed, built, wire,
             buffer, consecutive_failures, got, rebuilt, swr, rows, fan,
             decoded, cached, accVars>>

\* What the actions of each specification below leave alone.
notApi == <<notLate, controller, zs, command_queue, tracker, wk, circuit_breaker, cm>>
notSetpoints == <<notLate, zt, command_queue, tracker, wk, circuit_breaker, cm>>
notWorker == <<notLate, zt, controller, zs, circuit_breaker, cm>>
notBreaker == <<notLate, zt, controller, zs, command_queue, tracker, wk>>

\* ZoneTemperatureArgs: heat in 45..85 and cool in 64..99 when given, and
\* validate_setpoint_relationship when both are given.
ZoneTemperatureArgs(heat, cool) ==
    /\ heat # None => (heat >= 45 /\ heat <= 85)
    /\ cool # None => (cool >= 64 /\ cool <= 99)
    /\ (heat # None /\ cool # None) => ~(heat >= cool - 1)

\* Values of the body and of the path, and the zone's setpoints in the
\* cache and on the controller.
Heats == {None, 44, 45, 71, 72, 73, 85, 86}
Cools == {None, 63, 64, 69, 72, 74, 99, 100}
ZoneIds == {0, 1, ZoneCount + 1}
Currents == {[heat |-> 68, cool |-> 74]}

\* The request arrives: the body is validated (422), then the zone (404);
\* otherwise execute_command("set_zone_setpoints", ...) is entered.
PostZoneTemperature(zone_id, heat, cool, current) ==
    /\ zt.pc = "idle"
    /\ zt' = [NoRequest EXCEPT
                !.zone_id = zone_id, !.heat = heat, !.cool = cool,
                !.current = current,
                !.pc = IF ZoneTemperatureArgs(heat, cool)
                          /\ 1 <= zone_id /\ zone_id <= ZoneCount
                       THEN "executing" ELSE "done",
                !.response = IF ~ZoneTemperatureArgs(heat, cool) THEN 422
                             ELSE IF ~(1 <= zone_id /\ zone_id <= ZoneCount)
                             THEN 404 ELSE 0]
    /\ UNCHANGED notApi

\* The command wrote the rows and the status was read back: 200.
ZtExecuted ==
    /\ zt.pc = "executing"
    /\ zt' = [zt EXCEPT !.pc = "done", !.response = 200, !.written = TRUE]
    /\ UNCHANGED notApi

\* The command raised before any write: the handler answers 500.
ZtFailed ==
    /\ zt.pc = "executing"
    /\ zt' = [zt EXCEPT !.pc = "done", !.response = 500]
    /\ UNCHANGED notApi

NextApi ==
    \/ \E zone_id \in ZoneIds, heat \in Heats, cool \in Cools,
          current \in Currents :
            PostZoneTemperature(zone_id, heat, cool, current)
    \/ ZtExecuted
    \/ ZtFailed

\* One request for a zone's temperature.
SpecApi == Init /\ [][NextApi]_vars

(***************************************************************************)
(* set_zone_setpoints: rows 1.12 and 1.16 are read, patched and written    *)
(* back one after the other, inside execute_command's wait_for.            *)
(***************************************************************************)
\* Rows the controller holds before the command.
SetpointRows12 ==
    {<<0, 1, 12, 0, 0, 0, 0, 0, 0, t, h, 0, o, 0, 0, 0>> :
        t \in 0 .. 3, h \in {0, 2}, o \in {0, 1}}
SetpointRows16 ==
    {<<0, 1, 16, c, 78, 0, 0, 0, 0, 0, 0, h, 70>> : c \in {74, 78}, h \in {68, 70}}

\* Arguments of the command: zone 3 does not exist.
ZoneLists == {{1}, {1, 2}, {ZoneCount + 1}}
Flags == {None, 0, 1}

\* The loop of set_zone_setpoints over one zone id, on the writable bytes of
\* the two rows (row index - 3, counted from 1 here); a flag replaces bit
\* z_idx: (value & ~bit) | (flag << z_idx).
PatchZone(d, zone_id, c) ==
    IF ~(1 <= zone_id /\ zone_id <= ZoneCount) THEN d
    ELSE LET z_idx == zone_id - 1
             d16h == IF c.heat_setpoint # None
                     THEN [d.data16 EXCEPT ![11 + z_idx - 3 + 1] = c.heat_setpoint]
                     ELSE d.data16
             d16c == IF c.cool_setpoint # None
                     THEN [d16h EXCEPT ![3 + z_idx - 3 + 1] = c.cool_setpoint]
                     ELSE d16h
             d12t == IF c.temporary_hold # None
                     THEN [d.data12 EXCEPT ![9 - 3 + 1] = SetBit(@, z_idx, c.temporary_hold)]
                     ELSE d.data12
             d12h == IF c.hold # None
                     THEN [d12t EXCEPT ![10 - 3 + 1] = SetBit(@, z_idx, c.hold)]
                     ELSE d12t
             d12o == IF c.out_mode # None
                     THEN [d12h EXCEPT ![12 - 3 + 1] = SetBit(@, z_idx, c.out_mode)]
                     ELSE d12h
         IN  [data12 |-> d12o, data16 |-> d16c]

\* for zone_id in zones, in ascending order.
Patched[n \in 0 .. ZoneCount + 1, c \in {zs}] ==
    IF n = 0
    THEN [data12 |-> SubSeq(controller.r12, 4, Len(controller.r12)),
          data16 |-> SubSeq(controller.r16, 4, Len(controller.r16))]
    ELSE IF n \in c.zones THEN PatchZone(Patched[n - 1, c], n, c)
    ELSE Patched[n - 1, c]

\* The controller holds these rows before the client talks to it.
SetpointRows(r12, r16) ==
    /\ controller = NoController
    /\ controller' = [known |-> TRUE, r12 |-> r12, r16 |-> r16,
                      was12 |-> r12, was16 |-> r16]
    /\ UNCHANGED <<zs, notSetpoints>>

\* execute_command("set_zone_setpoints", ...): set_zone_setpoints is entered.
SetZoneSetpoints(zones, heat, cool, temporary_hold, hold, out_mode) ==
    /\ controller # NoController
    /\ zs.pc = "idle"
    /\ zs' = [NoSetpoints EXCEPT !.pc = "read", !.zones = zones,
                                 !.heat_setpoint = heat,
                                 !.cool_setpoint = cool,
                                 !.temporary_hold = temporary_hold,
                                 !.hold = hold, !.out_mode = out_mode]
    /\ UNCHANGED <<controller, notSetpoints>>

\* Both read_row calls have returned and the loop has patched the copies.
ZsRead ==
    /\ zs.pc = "read"
    /\ LET d == Patched[ZoneCount + 1, zs]
       IN  zs' = [zs EXCEPT !.pc = "write12", !.data12 = d.data12,
                            !.data16 = d.data16]
    /\ UNCHANGED <<controller, notSetpoints>>

\* write_row(1, 1, 12, data12): the controller stores the row and replies 0.
ZsWrite12 ==
    /\ zs.pc = "write12"
    /\ controller' = [controller EXCEPT !.r12 = <<0, 1, 12>> \o zs.data12]
    /\ zs' = [zs EXCEPT !.pc = "write16"]
    /\ UNCHANGED notSetpoints

\* write_row(1, 1, 16, data16): the controller stores the row and replies 0;
\* set_zone_setpoints returns.
ZsWrite16 ==
    /\ zs.pc = "write16"
    /\ controller' = [controller EXCEPT !.r16 = <<0, 1, 16>> \o zs.data16]
    /\ zs' = [zs EXCEPT !.pc = "done", !.outcome = "ok"]
    /\ UNCHANGED notSetpoints

\* A read_row or write_row raises: no reply (TimeoutError), a lost
\* connection, or a reply code that is not 0 (OSError).  The controller
\* stores nothing in that call and the command ends.
ZsRowFails(exc) ==
    /\ zs.pc \in {"read", "write12", "write16"}
    /\ zs' = [zs EXCEPT !.pc = "done", !.outcome = exc]
    /\ UNCHANGED <<controller, notSetpoints>>

\* asyncio.wait_for cancels the command at the await it is suspended in.
ZsCancelled ==
    /\ zs.pc \in {"read", "write12", "write16"}
    /\ zs' = [zs EXCEPT !.pc = "done", !.outcome = "TimeoutError"]
    /\ UNCHANGED <<controller, notSetpoints>>

NextSetpoints ==
    \/ /\ controller = NoController
       /\ \E r12 \in SetpointRows12, r16 \in SetpointRows16 :
             SetpointRows(r12, r16)
    \/ /\ zs.pc = "idle"
       /\ \E zones \in ZoneLists, heat \in {None, 66}, cool \in {None, 76},
             temporary_hold \in Flags, hold \in Flags, out_mode \in {None, 1} :
             SetZoneSetpoints(zones, heat, cool, temporary_hold, hold, out_mode)
    \/ ZsRead
    \/ ZsWrite12
    \/ ZsWrite16
    \/ \E exc \in {"OSError", "ConnectionError"} : ZsRowFails(exc)
    \/ ZsCancelled

\* One set_zone_setpoints command against a controller that stores what is
\* written to it.
SpecSetpoints == Init /\ [][NextSetpoints]_vars

(***************************************************************************)
(* The worker (pycz2/worker.py): enqueue_command, the command processor    *)
(* and the polling task, on the priority queue and the tracker.  The       *)
(* connection manager appears as the two changes it makes to _connected.   *)
(* The queue's maxsize (at least 10) is never reached by the commands of   *)
(* a behaviour here.                                                       *)
(***************************************************************************)
\* The heap order of the queued tuples (command.priority, command): the
\* integers are compared first, lower first; equal integers leave the
\* decision to HVACCommand.__lt__, which for equal priorities compares the
\* timestamps.
Precedes(a, b) ==
    \/ a.priority < b.priority
    \/ a.priority = b.priority /\ a.timestamp < b.timestamp

\* The item command_queue.get() returns.
HeapTop(q) == CHOOSE a \in q : \A b \in q \ {a} : Precedes(a, b)

\* tracker.update(command_id, status=...): ids the tracker does not know
\* (those of polls) are ignored.
TrackerUpdate(t, id, s) == IF id \in DOMAIN t THEN [t EXCEPT ![id] = s] ELSE t

\* The tracker after a command is given up while the worker is
\* disconnected: the branch sets the future's exception and appends to the
\* dead letter queue only.
GivenUp(t, id) == t

\* HVACCommand(type=POLL_STATUS, priority=0), stamped by time.time().
PollCommand(stamp) ==
    [id |-> 0, type |-> "poll_status", priority |-> 0, timestamp |-> stamp,
     retry_count |-> 0]

\* enqueue_command(command_type, args, priority): the command is tracked as
\* queued and put on the queue.
EnqueueCommand(id, command_type, priority) ==
    /\ tracker[id] = "none"
    /\ tracker' = [tracker EXCEPT ![id] = "queued"]
    /\ command_queue' = command_queue \cup
          {[id |-> id, type |-> command_type, priority |-> priority,
            timestamp |-> wk.stamps + 1, retry_count |-> 0]}
    /\ wk' = [wk EXCEPT !.stamps = @ + 1]
    /\ UNCHANGED notWorker

\* _command_processor: command_queue.get() returns.  Disconnected, the
\* command is put back with one more retry, or given up after max_retries;
\* connected, it is marked processing and _execute_command begins.
ProcGet ==
    /\ wk.pc = "idle"
    /\ command_queue # {}
    /\ LET c == HeapTop(command_queue)
           q == command_queue \ {c}
       IN  IF ~wk.connected
           THEN IF c.retry_count < max_retries
                THEN /\ command_queue' = q \cup {[c EXCEPT !.retry_count = @ + 1]}
                     /\ wk' = [wk EXCEPT !.command = c]
                     /\ UNCHANGED tracker
                ELSE /\ command_queue' = q
                     /\ wk' = [wk EXCEPT !.command = c,
                                         !.dead_letter = @ \cup {c.timestamp},
                                         !.resolved = @ \cup {c.timestamp}]
                     /\ tracker' = GivenUp(tracker, c.id)
           ELSE /\ command_queue' = q
                /\ wk' = [wk EXCEPT !.pc = "executing", !.command = c]
                /\ tracker' = TrackerUpdate(tracker, c.id, "processing")
    /\ UNCHANGED notWorker

\* _trigger_poll up to its wait: skipped while a poll is in progress or a
\* recent one exists, otherwise a poll command is queued and its future
\* awaited by the caller.
TriggerPoll(w, caller) ==
    IF w.poll_in_progress \/ w.recent
    THEN [queued |-> FALSE, wk |-> w]
    ELSE [queued |-> TRUE,
          wk |-> IF caller = "processor"
                 THEN [w EXCEPT !.poll_in_progress = TRUE, !.stamps = @ + 1,
                                !.pc = "poll_wait"]
                 ELSE [w EXCEPT !.poll_in_progress = TRUE, !.stamps = @ + 1,
                                !.task = "wait", !.task_poll = w.stamps + 1,
                                !.task_polls = @ + 1]]

\* _execute_command returns a status: the command is complete, its future
\* resolved, and after a command that is not a poll the processor itself
\* calls _trigger_poll.
ProcExecuted ==
    /\ wk.pc = "executing"
    /\ wk.connected
    /\ LET c == wk.command
           w == [wk EXCEPT !.pc = "idle", !.resolved = @ \cup {c.timestamp}]
           r == IF c.type # "poll_status" THEN TriggerPoll(w, "processor")
                ELSE [queued |-> FALSE, wk |-> w]
       IN  /\ tracker' = TrackerUpdate(tracker, c.id, "complete")
           /\ wk' = r.wk
           /\ command_queue' = IF r.queued
                               THEN command_queue \cup {PollCommand(wk.stamps + 1)}
                               ELSE command_queue
    /\ UNCHANGED notWorker

\* _execute_command raises (not connected, or an error of the client,
\* which may have lost the connection): the command is put back with one
\* more retry, or failed after max_retries.
ProcFailed(lost) ==
    /\ wk.pc = "executing"
    /\ wk.connected => lost \in BOOLEAN
    /\ ~wk.connected => ~lost
    /\ LET c == wk.command
           w == [wk EXCEPT !.pc = "idle",
                           !.connected = IF lost THEN FALSE ELSE @]
       IN  IF c.retry_count < max_retries
           THEN /\ command_queue' =
                     command_queue \cup {[c EXCEPT !.retry_count = @ + 1]}
                /\ wk' = w
                /\ UNCHANGED tracker
           ELSE /\ tracker' = TrackerUpdate(tracker, c.id, "failed")
                /\ wk' = [w EXCEPT !.dead_letter = @ \cup {c.timestamp},
                                   !.resolved = @ \cup {c.timestamp}]
                /\ UNCHANGED command_queue
    /\ UNCHANGED notWorker

\* The processor's wait for its own follow-up poll ends with the timeout of
\* wait_for: nobody else takes commands from the queue.
ProcPollTimeout ==
    /\ wk.pc = "poll_wait"
    /\ wk' = [wk EXCEPT !.pc = "idle", !.poll_in_progress = FALSE]
    /\ UNCHANGED <<command_queue, tracker, notWorker>>

\* _polling_task: the interval has passed and the worker is connected.
TaskTriggerPoll ==
    /\ wk.task = "sleep"
    /\ wk.connected
    /\ wk.task_polls < MaxTaskPolls
    /\ LET r == TriggerPoll(wk, "task")
       IN  /\ r.queued
           /\ wk' = r.wk
           /\ command_queue' = command_queue \cup {PollCommand(wk.stamps + 1)}
    /\ UNCHANGED <<tracker, notWorker>>

\* The polling task's wait ends: with the result (the poll is recent), with
\* the exception of a poll given up, or with the timeout.
TaskPollEnds(timeout) ==
    /\ wk.task = "wait"
    /\ timeout \/ wk.task_poll \in wk.resolved
    /\ wk' = [wk EXCEPT !.task = "sleep", !.poll_in_progress = FALSE,
                        !.recent = ~timeout /\ wk.task_poll \notin wk.dead_letter]
    /\ UNCHANGED <<command_queue, tracker, notWorker>>

\* Five seconds pass since the last completed poll.
PollAges ==
    /\ wk.recent
    /\ wk' = [wk EXCEPT !.recent = FALSE]
    /\ UNCHANGED <<command_queue, tracker, notWorker>>

\* _connect_with_backoff connects; _heartbeat finds the client not
\* connected.
WorkerConnection(connected) ==
    /\ wk.connected # connected
    /\ wk' = [wk EXCEPT !.connected = connected]
    /\ UNCHANGED <<command_queue, tracker, notWorker>>

\* The steps of the command processor.
Processor == ProcGet \/ ProcExecuted \/ (\E lost \in BOOLEAN : ProcFailed(lost)) \/ ProcPollTimeout

NextWorker ==
    \/ \E id \in CommandIds, command_type \in {"set_fan_mode"} :
          EnqueueCommand(id, command_type, 1)
    \/ ProcGet
    \/ ProcExecuted
    \/ \E lost \in BOOLEAN : ProcFailed(lost)
    \/ ProcPollTimeout
    \/ TaskTriggerPoll
    \/ \E timeout \in BOOLEAN : TaskPollEnds(timeout)
    \/ PollAges
    \/ \E connected \in BOOLEAN : WorkerConnection(connected)

\* The worker with its queue, its tracker and its tasks.
SpecWorker == Init /\ [][NextWorker]_vars

\* The event loop runs the command processor whenever it can take a step:
\* a queue that is not empty wakes its get(), an execution ends, a wait_for
\* times out.
SpecWorkerLive == SpecWorker /\ WF_vars(Processor)

(***************************************************************************)
(* The worker's circuit breaker and the connection manager that consults   *)
(* it (pycz2/worker.py).                                                   *)
(***************************************************************************)
\* CircuitBreaker.call() at time t: whether the call is allowed, and the
\* breaker after it.
Call(cb, t) ==
    IF cb.state = "closed" THEN [allowed |-> TRUE, cb |-> cb]
    ELSE LET timed_out == cb.state = "open"
                            /\ t - cb.last_failure_time > BreakerTimeout
             b == IF timed_out
                  THEN [cb EXCEPT !.state = "half_open", !.half_open_calls = 0]
                  ELSE cb
         IN  IF b.state = "open" THEN [allowed |-> FALSE, cb |-> b]
             ELSE IF b.half_open_calls >= half_open_max_calls
             THEN [allowed |-> FALSE, cb |-> b]
             ELSE [allowed |-> TRUE,
                   cb |-> [b EXCEPT !.half_open_calls = @ + 1]]

\* CircuitBreaker.success()
Success(cb) ==
    IF cb.state = "half_open"
    THEN IF cb.half_open_calls >= half_open_max_calls
         THEN [cb EXCEPT !.state = "closed", !.failure_count = 0]
         ELSE cb
    ELSE IF cb.state = "closed" THEN [cb EXCEPT !.failure_count = 0]
    ELSE cb

\* CircuitBreaker.failure() at time t.
Failure(cb, t) ==
    LET b == [cb EXCEPT !.failure_count = @ + 1, !.last_failure_time = t]
    IN  IF cb.state = "half_open" THEN [b EXCEPT !.state = "open"]
        ELSE IF b.failure_count >= failure_threshold
        THEN [b EXCEPT !.state = "open"]
        ELSE b

\* _connection_manager finds the worker disconnected and enters
\* _connect_with_backoff: the breaker is asked, and a refused call returns.
ConnectAttempt ==
    /\ cm.pc = "idle"
    /\ ~cm.connected
    /\ LET r == Call(circuit_breaker, cm.time)
       IN  /\ circuit_breaker' = r.cb
           /\ cm' = IF r.allowed THEN [cm EXCEPT !.pc = "connecting"] ELSE cm
    /\ UNCHANGED notBreaker

\* client.connect() returns.
ConnectSucceeds ==
    /\ cm.pc = "connecting"
    /\ circuit_breaker' = Success(circuit_breaker)
    /\ cm' = [cm EXCEPT !.pc = "idle", !.connected = TRUE]
    /\ UNCHANGED notBreaker

\* client.connect() raises; the backoff sleep follows.
ConnectFails ==
    /\ cm.pc = "connecting"
    /\ circuit_breaker.failure_count < MaxFailures
    /\ circuit_breaker' = Failure(circuit_breaker, cm.time)
    /\ cm' = [cm EXCEPT !.pc = "idle"]
    /\ UNCHANGED notBreaker

\* _heartbeat, or a failed command, finds the client disconnected.
ConnectionLost ==
    /\ cm.connected
    /\ cm' = [cm EXCEPT !.connected = FALSE]
    /\ UNCHANGED <<circuit_breaker, notBreaker>>

\* time.time() advances.
BreakerTick ==
    /\ cm.time < MaxBreakerTime
    /\ cm' = [cm EXCEPT !.time = @ + 1]
    /\ UNCHANGED <<circuit_breaker, notBreaker>>

\* The steps of the connection manager.
ConnectionManager == ConnectAttempt \/ ConnectSucceeds \/ ConnectFails

NextBreaker ==
    \/ ConnectAttempt
    \/ ConnectSucceeds
    \/ ConnectFails
    \/ ConnectionLost
    \/ BreakerTick

\* The connection manager, its breaker and the clock.
SpecBreaker == Init /\ [][NextBreaker]_vars

\* The event loop runs the connection manager, and connect() ends.
SpecBreakerLive == SpecBreaker /\ WF_vars(ConnectionManager)

(***************************************************************************)
(* Properties                                                              *)
(***************************************************************************)
\* The task is inside a bus session: it holds the bus lock and is opening
\* the transport or exchanging frames on it.
InSession(p) == pc[p] \in {"connect", "bus"}

\* C1: at any moment at most one operation is inside a bus session, whatever
\* its kind (command, GetStatus refresh, refresh-loop iteration, live query,
\* MQTT poll): the task in the session is the holder of the single bus lock,
\* and an open transport belongs to that holder.
C1_OneBusSession ==
    /\ \A p, q \in Procs : InSession(p) /\ InSession(q) => p = q
    /\ \A p \in Procs : InSession(p) => op_lock = p
    /\ \A p \in Procs : writer = p => op_lock = p /\ pc[p] = "bus"

\* C1, reached: one task is on the bus while another waits for the lock.
C1_Witness ==
    \E p, q \in Procs :
        /\ pc[p] = "bus" /\ writer = p
        /\ pc[q] = "wait_lock"
        /\ op[p].kind # op[q].kind

\* The command of p has read the row and not yet written it back.
InReadModifyWrite(p, row) ==
    LET plan == Plan(op[p].operation)
        done == 1 .. (op[p].i - 1)
    IN  /\ pc[p] = "bus"
        /\ op[p].kind = "command"
        /\ \E i \in done : plan[i] = <<"read", row>>
        /\ ~\E i \in done : plan[i] = <<"write", row>>

\* C2: between a command's read of row 12, 16 or 17 and its write-back of
\* that row, no other task sends a frame on the bus: the last frame sent is
\* the command's own, and nobody else holds the transport.
C2_ReadModifyWriteAtomic ==
    \A p \in Procs, row \in {12, 16, 17} :
        InReadModifyWrite(p, row) => lastSender = p /\ writer = p

\* C2, reached: a set_zone_setpoints has read rows 12 and 16, has written
\* row 12 back and not yet row 16, while another task waits for the bus.
C2_Witness ==
    \E p, q \in Procs :
        /\ op[p].operation = "set_zone_setpoints"
        /\ op[p].i = 4
        /\ InReadModifyWrite(p, 16)
        /\ pc[q] = "wait_lock"

\* C3: meta.version never decreases from one observation to the next (it is
\* strictly greater after every Update, Clear and SetConnectionStatus).
C3_VersionNeverDecreases == [][meta'.version >= meta.version]_vars

\* C4: every completed cache write returned normally and delivered its
\* message to every registered subscriber whose queue had room.
C4_EveryWriteFansOut == ~lastWrite.raised /\ lastWrite.missed = {}

\* The writes a subscriber has been told of, oldest first: the one of the
\* message it took last, then those of the messages waiting in its queue.
Told(q) == <<lastGot[q]>> \o [i \in 1 .. Len(queue[q]) |-> queue[q][i].w]

C6_FailureKeepsLastGood ==
    [][/\ (envWrite = NoWrite /\ envWrite'.call = "failure") =>
            /\ status' = status
            /\ Get(status') = Get(status)
            /\ ~meta'.connected
            /\ meta'.error = envWrite'.error
       /\ (envWrite.call = "failure" /\ envWrite' = NoWrite) =>
            /\ Get(status') = Get(status)
            /\ ~meta'.connected
            /\ meta'.error = envWrite.error]_vars

\* C6, reached: a failure has been recorded over a stored status.
C6_Witness ==
    /\ envWrite = NoWrite
    /\ status # NoStatus
    /\ Get(status) = status
    /\ ~meta.connected
    /\ meta.error = "bus"
    /\ meta.source = "error"

\* C7: when execute_command returns successfully, the status read after the
\* command's writes is the cache's status, with source command, connected,
\* not stale, and, if no other writer wrote meanwhile, a version one greater
\* than when the command was called.
C7_CommandReturnsAfterCacheUpdate ==
    [][(ret'.n # ret.n /\ ret'.call = "command" /\ ret'.outcome = "ok") =>
          LET p == ret'.p
          IN  /\ pc[p] = "update_notify"
              /\ op[p].i > Len(Plan(op[p].operation))
              /\ op[p].st = [n |-> op[p].n, raw |-> FALSE]
              /\ status' = op[p].st
              /\ meta'.source = "command"
              /\ meta'.connected
              /\ ~is_stale(meta', now')
              /\ (~interfered[p] => meta'.version = op[p].v0 + 1)]_vars

\* C7, reached: a command has returned successfully.
C7_Witness ==
    /\ ret.call = "command"
    /\ ret.outcome = "ok"
    /\ status.n = ret.n
    /\ meta.source = "command"
    /\ meta.version = 1

\* C8: a command that ran into its timeout ends with the caller getting the
\* timeout failure, the cache meta disconnected with the timeout's error and
\* the status kept, and neither the bus lock nor the transport held by it.
C8_TimeoutReported ==
    [][(ret'.n # ret.n /\ ret'.call = "command"
          /\ op[ret'.p].err = "timeout") =>
          /\ ret'.outcome = "timeout"
          /\ ~meta'.connected
          /\ meta'.error = "timeout"
          /\ status' = status
          /\ op_lock' # ret'.p
          /\ writer' # ret'.p]_vars

\* The source tag get_status passes to _refresh_once.
RefreshTag(force) == IF force THEN "force" ELSE "auto"

C11_IsStaleExactly ==
    [][LET Stated(m, t) == \/ m.last_update_ts = 0
                           \/ ~m.connected
                           \/ t - m.last_update_ts > StaleAfterSec
       IN  /\ is_stale(meta, now) <=> Stated(meta, now)
           /\ is_stale(meta', now') <=> Stated(meta', now')
           /\ (envWrite = NoWrite /\ envWrite'.call = "update") =>
                ~is_stale(meta', now')]_vars

\* C11, reached: a connected cache whose data is one second older than
\* stale_after_sec, which is stale.
C11_Witness ==
    /\ meta.connected
    /\ meta.last_update_ts # 0
    /\ now - meta.last_update_ts = StaleAfterSec + 1
    /\ is_stale(meta, now)

\* C12: an update without a status leaves last_update_ts at its previous
\* value.
C12_FailureKeepsTimestamp ==
    [][(envWrite = NoWrite /\ envWrite'.call = "failure") =>
          meta'.last_update_ts = meta.last_update_ts]_vars

\* C13: last_update_ts never decreases, whatever the sequence of Update,
\* SetConnectionStatus and Clear.
C13_TimestampNeverDecreases ==
    [][meta'.last_update_ts >= meta.last_update_ts]_vars

\* C14: the transport is open only inside the bus session of the task that
\* opened it: whenever the bus lock is free the transport is closed, an open
\* transport belongs to the holder of the lock, and a transport is opened
\* only when none is open -- whether the operation succeeds, fails, times
\* out or is cancelled.
C14_TransportClosedWithLock ==
    [][/\ (op_lock = Free => writer = Free)
       /\ (op_lock' = Free => writer' = Free)
       /\ (writer' # Free => op_lock' = writer')
       /\ (writer' # writer /\ writer' # Free => writer = Free)]_vars

\* A command timed out after a row operation on the open transport, and the
\* transport is closed and the lock free before its handler runs.
C14_Witness ==
    \E p \in Callers :
        /\ pc[p] = "fail"
        /\ op[p].err = "timeout"
        /\ op[p].i > 1
        /\ writer = Free
        /\ op_lock = Free

\* C15: a task that is about to write the cache, or is writing it, does not
\* hold the bus lock, and the holder of the cache's writer lock is not
\* waiting for the bus lock nor inside a bus session.
C15_LocksNeverNested ==
    \A p \in Procs :
        /\ pc[p] \in {"update", "update_notify", "fail", "fail_notify"} =>
              op_lock # p
        /\ cacheLock = p =>
              /\ op_lock # p
              /\ pc[p] \notin {"wait_lock", "connect", "bus"}

\* One task writes the cache after its status read while another task
\* holds the bus lock.
C15_Witness ==
    \E p, q \in Procs :
        /\ p # q
        /\ pc[p] = "update_notify"
        /\ cacheLock = p
        /\ op_lock = q

\* C16: while stop() is in progress no execute_command begins.
C16_NoCommandStartsDuringStop ==
    [][\A p \in Procs :
          (stopping /\ op[p].kind # "command") => op'[p].kind # "command"]_vars

\* C17: once stop() is invoked no refresh iteration begins, an iteration in
\* flight takes no further step and ends cancelled, and when the loop task
\* has ended -- which it has when stop() is left -- it holds neither the bus
\* lock nor the transport nor the cache's lock.
C17_StopEndsRefreshLoop ==
    [][/\ (stopping \/ ~LoopAlive) =>
             /\ (stopping' \/ ~LoopAlive')
             /\ pc[LoopTask] = "idle" => pc'[LoopTask] = "idle"
             /\ pc'[LoopTask] \in {pc[LoopTask], "idle"}
             /\ (pc[LoopTask] # "idle" /\ pc'[LoopTask] = "idle") =>
                   ret'.outcome \in {"cancelled", "cancelled_in_session"}
       /\ ~LoopAlive' =>
             /\ pc'[LoopTask] = "idle"
             /\ op_lock' # LoopTask
             /\ writer' # LoopTask
             /\ cacheLock' # LoopTask
       /\ (stopping /\ ~stopping') => ~LoopAlive']_vars

\* stop() has returned after it cancelled a refresh that held the bus lock
\* and the open transport.
C17_Witness ==
    /\ ~stopping
    /\ refresh_task = "none"
    /\ ret.p = LoopTask
    /\ ret.outcome = "cancelled_in_session"
    /\ op_lock # LoopTask
    /\ writer # LoopTask

\* C18: the manager never has more than MaxTotal registered subscribers nor
\* more than MaxPerIp from one address, its per-address index agrees with
\* its registrations, and a refused subscription registers nothing.
C18_SubscriberLimits ==
    [][/\ Cardinality(Live(sse_subscribers')) <= MaxTotal
       /\ \A ip \in Ips :
             /\ Cardinality(subscribers_by_ip'[ip]) <= MaxPerIp
             /\ subscribers_by_ip'[ip] =
                  {s \in Live(sse_subscribers') : sse_subscribers'[s].ip = ip}
       /\ (sse_ret' # sse_ret /\ sse_ret'.call = "subscribe"
             /\ sse_ret'.outcome # "ok") =>
             UNCHANGED <<sse_subscribers, subscribers_by_ip>>]_vars

\* The subscription after the MaxPerIp-th from one address was refused
\* while the manager had room in total.
C18_Witness ==
    /\ sse_ret = [call |-> "subscribe", outcome |-> "refused_ip"]
    /\ Cardinality(Live(sse_subscribers)) < MaxTotal
    /\ \E ip \in Ips : Cardinality(subscribers_by_ip[ip]) = MaxPerIp

\* C19: a broadcast leaves the queue of a registered subscriber at capacity
\* unchanged, counts one more error for it and keeps it registered, and
\* appends the event to the queue of every registered subscriber with room.
C19_BroadcastSkipsFullQueue ==
    [][(sse_ret'.call = "broadcast"
          /\ event_id_counter' = event_id_counter + 1) =>
         \A s \in Live(sse_subscribers) :
            /\ sse_subscribers'[s].live
            /\ IF Len(sse_subscribers[s].queue) >= SseQueueMax
               THEN /\ sse_subscribers'[s].queue = sse_subscribers[s].queue
                    /\ sse_subscribers'[s].error_count =
                         sse_subscribers[s].error_count + 1
               ELSE /\ sse_subscribers'[s].queue =
                         Append(sse_subscribers[s].queue, event_id_counter')
                    /\ sse_subscribers'[s].error_count =
                         sse_subscribers[s].error_count]_vars

\* The last broadcast passed over a subscriber whose queue was full, and
\* reached another one.
C19_Witness ==
    /\ sse_ret.call = "broadcast"
    /\ \E s, t \in Live(sse_subscribers) :
          /\ Len(sse_subscribers[s].queue) = SseQueueMax
          /\ sse_subscribers[s].error_count = 1
          /\ sse_subscribers[s].queue[SseQueueMax] # event_id_counter
          /\ sse_subscribers[t].queue # << >>
          /\ sse_subscribers[t].queue[Len(sse_subscribers[t].queue)] =
                event_id_counter

\* C20: each event the stream emits has a larger id than the one before.
C20_StreamIdsIncrease ==
    [][(stream.pc = "running" /\ stream'.pc = "running"
          /\ stream' # stream) => stream'.last > stream.last]_vars

\* C21: when the stream ends, by whichever way, its subscriber is not
\* registered in the manager (neither map) and its cache queue is not in the
\* cache's subscriber set; so nothing of a stream that no longer exists is
\* registered anywhere.
C21_EndedStreamDeregistered ==
    [][LET Gone(subs, by_ip, csubs) ==
               /\ ~subs[1].live
               /\ \A ip \in Ips : 1 \notin by_ip[ip]
               /\ StreamQueue \notin csubs
       IN  /\ (stream # NoStream /\ stream' = NoStream) =>
                 Gone(sse_subscribers', subscribers_by_ip', subscribers')
           /\ stream = NoStream =>
                 Gone(sse_subscribers, subscribers_by_ip, subscribers)]_vars

\* The stream has emitted events and has ended, while another subscriber is
\* still registered.
C21_Witness ==
    /\ stream = NoStream
    /\ sse_ret.call = "next_event_id"
    /\ Live(sse_subscribers) # {}
    /\ StreamQueue \notin subscribers

\* C22: a running stream whose subscriber the manager's stop has
\* deregistered has the close signal in its queue, so that it ends when it
\* reaches it.
C22_StoppedStreamHasTerminator ==
    (stream.pc = "running" /\ ~sse_subscribers[1].live) =>
        \E i \in 1 .. Len(sse_subscribers[1].queue) :
            sse_subscribers[1].queue[i] = CloseSignal

\* C30: a cache write whose durable snapshot could not be stored ends with
\* its in-memory change in place -- the status, the meta and the version it
\* assigned -- and raises only what the notification of subscribers raises.
C30_PersistFailureHarmless ==
    [][(envWrite # NoWrite /\ envWrite' = NoWrite /\ ~lastWrite'.stored) =>
          /\ status' = status
          /\ meta' = meta
          /\ cacheLock' = Free
          /\ lastWrite'.raised =>
                (subscribers # {} /\ NotifyRaises)]_vars

\* An update whose snapshot was not stored has ended without raising, and
\* the cache holds its status and its version.
C30_Witness ==
    /\ envWrite = NoWrite
    /\ ~lastWrite.stored
    /\ ~lastWrite.raised
    /\ meta.version >= 1
    /\ status # NoStatus
    /\ meta.source \in {"poll", "command"}

\* C23: send_with_reply makes at most StopAfterAttempt attempts, waits for
\* another attempt only after a transport error, and an error reply
\* (OSError) or MAX_REPLY_ATTEMPTS frames without a reply (TimeoutError) end
\* the call on the attempt they happen in, with that exception.
C23_RetriesOnlyTransportErrors ==
    [][/\ swr'.attempt <= StopAfterAttempt
       /\ swr'.pc = "wait" =>
             swr'.cause \in {"ConnectionAbortedError", "ConnectionError"}
       /\ (swr'.attempt > swr.attempt /\ swr.attempt >= 1) =>
             /\ swr.pc = "wait"
             /\ swr.cause \in {"ConnectionAbortedError", "ConnectionError"}
       /\ swr'.cause \in {"OSError", "TimeoutError"} =>
             /\ swr'.pc = "done"
             /\ swr'.outcome = swr'.cause
             /\ swr'.attempt = swr.attempt
       /\ swr'.outcome = "TimeoutError" =>
             swr'.scanned = MAX_REPLY_ATTEMPTS]_vars

\* After a transport error and a second attempt, an error reply ended the
\* call on that second attempt.
C23_Witness ==
    /\ swr.pc = "done"
    /\ swr.outcome = "OSError"
    /\ swr.attempt = 2

\* C24: a read request returns only a frame that is addressed to this
\* device, is a reply, and echoes the first three data bytes of the request.
C24_ReadReplyEchoes ==
    (swr.outcome = "returned" /\ swr.function = "read") =>
        /\ swr.reply.destination = DeviceId
        /\ swr.reply.function = "reply"
        /\ Len(swr.reply.data) >= 3
        /\ SubSeq(swr.reply.data, 1, 3) = SubSeq(swr.data, 1, 3)

\* C27: build and parse are inverses: the built frame parses to the
\* destination, source, function and data it was built from, building again
\* from the parsed fields gives the same bytes, and the CRC-16/ARC over the
\* whole built frame, checksum included, is 0.
C27_BuildParseInverse ==
    /\ built # NoBuilt =>
          /\ Crc16Ccitt(built.bytes) = 0
          /\ Len(built.bytes) = PROTOCOL_SIZE + Len(built.data)
    /\ got.kind # "none" =>
          /\ got.kind = "frame"
          /\ got.destination = built.destination
          /\ got.source = built.source
          /\ got.function = built.function
          /\ got.data = built.data
    /\ rebuilt # << >> => rebuilt = built.bytes

\* An error frame without data and a write of two bytes were built, parsed
\* and built again.
C27_Witness ==
    /\ rebuilt # << >>
    /\ built.function = "write"
    /\ built.destination = 255
    /\ built.data = <<255, 1>>

\* C25: get_frame has failed once 50 empty reads in a row were made, and
\* the failure for empty reads comes at that count.
C25_FailsAfterFiftyEmptyReads ==
    /\ consecutive_failures >= max_failures =>
          gf.outcome = "ConnectionAbortedError"
    /\ gf.message = "Too many consecutive empty reads" =>
          consecutive_failures = max_failures

\* C26 as stated: the first frame get_frame yields on prefix, frame, tail is
\* the frame, it is yielded by the time the last byte was read, and what is
\* left, in the accumulator and unread, is the tail.
C26_YieldsFrameLeavesTail ==
    /\ gf.outcome = "frame" =>
          /\ got.destination = built.destination
          /\ got.source = built.source
          /\ got.function = built.function
          /\ got.data = built.data
          /\ buffer \o wire = fed.tail
    /\ gf.pc = "reading" => wire # << >>

\* C26, amended: the same for a frame with at least one data byte whose
\* start is the only offset before the tail at which the scan accepts.
C26_SoleFrameYieldedLeavesTail ==
    (built.data # << >> /\ fed.sole) =>
        /\ gf.outcome = "frame" =>
              /\ got.destination = built.destination
              /\ got.source = built.source
              /\ got.function = built.function
              /\ got.data = built.data
              /\ buffer \o wire = fed.tail
        /\ gf.pc = "reading" => wire # << >>

\* The frame was yielded from behind three bytes of noise when not all of
\* the stream had been read.
C26_Witness ==
    /\ gf.outcome = "frame"
    /\ fed.sole
    /\ fed.prefix = <<0, 0, 0>>
    /\ fed.tail = <<255>>
    /\ buffer = << >>
    /\ wire = <<255>>

\* C28: after a set_fan_mode(m) command that succeeded, the status read
\* that followed it and the snapshot given to the cache report fan mode m,
\* whatever row 1.17 held before.
C28_FanModeReadBack ==
    /\ fan.pc = "update" => decoded.fan_mode = fan.mode
    /\ fan.outcome = "ok" =>
          /\ decoded.fan_mode = fan.mode
          /\ cached.fan_mode = fan.mode
          /\ ParseStatus(rows).fan_mode = fan.mode

\* The command to Auto succeeded on a row whose byte had every bit set.
C28_Witness ==
    /\ fan.outcome = "ok"
    /\ fan.mode = "Auto"
    /\ fan.current_val = 255
    /\ cached.known
    /\ cached.fan_mode = "Auto"

\* C29: all_mode is true exactly when byte 15 of row 1.12 is not zero; when
\* the byte names a zone in 1..ZoneCount every decoded zone carries that
\* zone's setpoints, temporary, hold and out; any other value leaves every
\* zone with its own.
C29_AllModeCopiesSourceZone ==
    decoded.known =>
        LET src == safe_get(rows.r12, 15)
        IN  /\ decoded.all_mode <=> src # 0
            /\ \A z \in 1 .. ZoneCount :
                  LET own == ZoneOf(rows, z - 1)
                      from == IF src \in 1 .. ZoneCount
                              THEN ZoneOf(rows, src - 1) ELSE own
                  IN  /\ decoded.zones[z].zone_id = z
                      /\ decoded.zones[z].cool_setpoint = from.cool_setpoint
                      /\ decoded.zones[z].heat_setpoint = from.heat_setpoint
                      /\ decoded.zones[z].temporary = from.temporary
                      /\ decoded.zones[z].hold = from.hold
                      /\ decoded.zones[z].out = from.out

\* Zone 2 is the source and zone 1 was decoded with zone 2's values, which
\* differ from its own in every field.
C29_Witness ==
    /\ decoded.known
    /\ safe_get(rows.r12, 15) = 2
    /\ ZoneOf(rows, 0) = [zone_id |-> 1, cool_setpoint |-> 74,
                           heat_setpoint |-> 68, temporary |-> FALSE,
                           hold |-> FALSE, out |-> FALSE]
    /\ decoded.zones[1] = [zone_id |-> 1, cool_setpoint |-> 78,
                            heat_setpoint |-> 70, temporary |-> TRUE,
                            hold |-> TRUE, out |-> TRUE]

\* C31: a zone-temperature request that is written to the bus leaves at
\* least 2 degrees between the zone's heat and cool setpoints, a setpoint
\* that the request does not give being the zone's current one.
C31_AcceptedKeepsTwoDegrees ==
    zt.written =>
        LET heat == IF zt.heat # None THEN zt.heat ELSE zt.current.heat
            cool == IF zt.cool # None THEN zt.cool ELSE zt.current.cool
        IN  cool - heat >= 2

\* C32: a GetStatus(force=false) call takes the bus only when the cache
\* cannot serve it: a caller that obtains the lock after another caller's
\* refresh made the cache fresh issues no bus read.
C32_ReadsCoalesced ==
    [][\A p \in Procs :
          (/\ op[p].kind = "get_status"
           /\ ~op[p].force
           /\ pc[p] = "wait_lock"
           /\ pc'[p] = "connect")
          => ~ServeFromCache(op[p].force, op[p].raw, status, meta, now)]_vars

\* C33: set_connection_status changes only connected, source, error and
\* version, leaving the cached status and last_update_ts as they were; a
\* cache that holds no status is still stale after it.
C33_ConnectionStatusFrame ==
    [][(envWrite = NoWrite /\ envWrite'.call = "set_connection_status") =>
          /\ status' = status
          /\ meta'.last_update_ts = meta.last_update_ts
          /\ meta'.version = meta.version + 1
          /\ status = NoStatus => is_stale(meta', now')]_vars

\* C34: the reply that send_with_reply returns came from the transport
\* after the request was first written.
C34_ReplyReceivedAfterWrite ==
    swr.outcome = "returned" => swr.received >= swr.first

\* C35: when set_zone_setpoints has ended, by success, by a failed row call
\* or by cancellation, either rows 1.12 and 1.16 both carry the patched
\* values or neither row was written.
C35_BothRowsOrNeither ==
    zs.pc = "done" =>
        \/ /\ controller.r12 = <<0, 1, 12>> \o zs.data12
           /\ controller.r16 = <<0, 1, 16>> \o zs.data16
        \/ /\ controller.r12 = controller.was12
           /\ controller.r16 = controller.was16

\* C36: when stop() ends, the service holds no refresh task and the stop
\* event is cleared, wherever the cancellation reached the loop.
C36_StopForgetsTask ==
    [][(stopping /\ ~stopping') =>
          (refresh_task' = "none" /\ ~stop_event')]_vars

\* C37: after every call of the event manager an id is in the per-address
\* set of an address exactly when it is a registered subscriber from that
\* address, and subscribers_by_ip has no entry with an empty set.
C37_IndexesConsistent ==
    /\ \A ip \in Ips :
          subscribers_by_ip[ip] =
             {s \in Live(sse_subscribers) : sse_subscribers[s].ip = ip}
    /\ \A ip \in Ips : ip \in by_ip_keys <=> subscribers_by_ip[ip] # {}

\* An address lost its last subscriber while another address still has one.
C37_Witness ==
    /\ sse_ret.call = "unsubscribe"
    /\ \E ip \in Ips : ip \notin by_ip_keys
    /\ by_ip_keys # {}

\* C38: the command taken from the queue has the numerically highest
\* priority of the queued commands and, among those of its priority, the
\* earliest timestamp.
C38_HigherPriorityFirst ==
    [][\A c \in command_queue :
          c \notin command_queue' =>
             \A b \in command_queue :
                \/ c.priority > b.priority
                \/ c.priority = b.priority /\ c.timestamp <= b.timestamp]_vars

\* C39: every command that enqueue_command accepted reaches a terminal
\* tracker status, complete or failed, while the worker keeps running.
C39_CommandsTerminate ==
    \A id \in CommandIds :
        (tracker[id] = "queued") ~> (tracker[id] \in {"complete", "failed"})

\* C40: an open breaker admits a connection attempt only more than the
\* timeout after the last failure, a failure in the half-open state opens
\* it again, and after a successful reconnection through the half-open
\* state the breaker eventually is closed with failure_count 0.
C40_BreakerRecovers ==
    /\ [][/\ (circuit_breaker.state = "open" /\ cm.pc = "idle"
                /\ cm'.pc = "connecting") =>
               cm.time - circuit_breaker.last_failure_time > BreakerTimeout
          /\ (circuit_breaker.state = "half_open"
                /\ circuit_breaker'.failure_count > circuit_breaker.failure_count) =>
               circuit_breaker'.state = "open"]_vars
    /\ (circuit_breaker.state = "half_open" /\ cm.connected) ~>
          (circuit_breaker.state = "closed" /\ circuit_breaker.failure_count = 0)

====
